---- MODULE Spec2Model ----
(***************************************************************************)
(* Skill discovery, parsing, classification, aggregation and selection of  *)
(* the skills panels (useSkillsData, SkillsListPanel, SkillDetailPanel and *)
(* the mock event emitter).                                                *)
(*                                                                         *)
(* Strings are sequences of atoms.  An atom is either one significant      *)
(* character ("/", ".", "-", "_", "#", "*", " ", "\n") or a maximal run of *)
(* other characters ("agent", "skills", "SKILL").  The JavaScript string   *)
(* methods the code uses are modelled on these sequences.                  *)
(***************************************************************************)
EXTENDS Integers, Sequences, FiniteSets, TLC

VARIABLES
    context,          \* the PanelContextValue the host currently passes down
    mounted,          \* the panels that are rendered
    skills,           \* per hook instance: useState<Skill[]>([])
    isLoading,        \* per hook instance: useState(true)
    error,            \* per hook instance: useState<string | null>(null)
    passes,           \* per hook instance: the loadSkills calls suspended at Promise.all
    lastPass,         \* per hook instance: the loadSkills call that ran to its end in
                      \* the latest step (kind "none" when none did)
    uncaught,         \* a fault left a loadSkills call as an unhandled rejection
    listSelectedSkillId, \* SkillsListPanel: useState<string | null>(null)
    handlers,         \* event emitter: Map<type, Set<handler>>
    emitted,          \* the events passed to emit, in order
    delivered,        \* the handler calls made by emit, in order
    detailSelectedSkillId, \* SkillDetailPanel: useState<string | null>(null)
    detailSkill,      \* SkillDetailPanel: useState<Skill | null>(null)
    srcPath,          \* classification run: the path handed to determineSkillSource
    srcResult,        \* classification run: what determineSkillSource returned
    discoverArg,      \* parsing run: the allFiles handed to findSkillFiles
    discovered,       \* parsing run: what findSkillFiles returned
    parseArgs,        \* parsing run: the arguments handed to parseSkillContent
    parsed,           \* parsing run: what parseSkillContent returned
    searchQuery,      \* SkillsListPanel: useState('')
    skillFilter       \* SkillsListPanel: useState<SkillFilter>('all')

vars == <<context, mounted, skills, isLoading, error, passes, lastPass, uncaught,
          listSelectedSkillId, handlers, emitted, delivered,
          detailSelectedSkillId, detailSkill, srcPath, srcResult,
          discoverArg, discovered, parseArgs, parsed, searchQuery, skillFilter>>

hookVars == <<skills, isLoading, error, passes, lastPass, uncaught>>
panelVars == <<listSelectedSkillId, handlers, emitted, delivered,
               detailSelectedSkillId, detailSkill>>
classifyVars == <<srcPath, srcResult>>
parseVars == <<discoverArg, discovered, parseArgs, parsed>>
filterVars == <<searchQuery, skillFilter>>

----------------------------------------------------------------------------
(* JavaScript values and string methods *)

\* JavaScript null (error state, selected id, per-item read result).
Null == <<"null">>

\* JavaScript undefined (a field a host-supplied record leaves out).
Undefined == <<"undefined">>

\* Truthiness of a string-or-null-or-undefined value.
Truthy(v) == v # Null /\ v # Undefined /\ v # <<>>

\* A variant of StartsWith that finds p anywhere in s.
StartsWithAnywhere(s, p) ==
    \E i \in 0..(Len(s) - Len(p)) : SubSeq(s, i + 1, i + Len(p)) = p

\* s.startsWith(p)
StartsWith(s, p) ==
    /\ Len(p) <= Len(s)
    /\ SubSeq(s, 1, Len(p)) = p

\* s.includes(sub)
Includes(s, sub) ==
    \E i \in 0..(Len(s) - Len(sub)) : SubSeq(s, i + 1, i + Len(sub)) = sub

\* s.lastIndexOf(ch): zero-based index of the last occurrence of atom ch, or -1.
LastIndexOf(s, ch) ==
    LET hits == {i \in 1..Len(s) : s[i] = ch}
    IN  IF hits = {} THEN -1
        ELSE (CHOOSE i \in hits : \A j \in hits : j <= i) - 1

\* s.substring(a, b) for a = 0: a negative b counts as 0.
Substring0(s, b) == IF b <= 0 THEN <<>> ELSE SubSeq(s, 1, b)

\* s.split(sep) for a one-atom separator: the pieces between separators.
RECURSIVE Split(_, _)
Split(s, sep) ==
    LET hits == {i \in 1..Len(s) : s[i] = sep}
    IN  IF hits = {} THEN <<s>>
        ELSE LET i == CHOOSE k \in hits : \A j \in hits : k <= j
             IN  <<SubSeq(s, 1, i - 1)>> \o Split(SubSeq(s, i + 1, Len(s)), sep)

\* pieces.join(sep)
RECURSIVE Join(_, _)
Join(pieces, sep) ==
    IF Len(pieces) = 0 THEN <<>>
    ELSE IF Len(pieces) = 1 THEN pieces[1]
    ELSE pieces[1] \o sep \o Join(Tail(pieces), sep)

\* A variant of ReplaceAll that replaces the first occurrence only.
ReplaceAllFirstOnly(s, x, y) ==
    [i \in 1..Len(s) |->
        IF s[i] = x /\ \A j \in 1..(i - 1) : s[j] # x THEN y ELSE s[i]]

\* s.replace(/x/g, y) for one-atom x and y.
ReplaceAll(s, x, y) == [i \in 1..Len(s) |-> IF s[i] = x THEN y ELSE s[i]]

\* The atoms \s matches.
Whitespace == {" ", "\t", "\r"}

\* s.trim()
RECURSIVE TrimStart(_)
TrimStart(s) ==
    IF Len(s) > 0 /\ s[1] \in Whitespace THEN TrimStart(Tail(s)) ELSE s

RECURSIVE TrimEnd(_)
TrimEnd(s) ==
    IF Len(s) > 0 /\ s[Len(s)] \in Whitespace
    THEN TrimEnd(SubSeq(s, 1, Len(s) - 1)) ELSE s

Trim(s) == TrimEnd(TrimStart(s))

\* files.map((f) => f.relativePath)
RelativePaths(files) == [i \in 1..Len(files) |-> files[i].relativePath]

\* files.map((f) => f.name)
Names(files) == [i \in 1..Len(files) |-> files[i].name]

\* A variant of Slice0 that does not cut the array.
Slice0Unlimited(seq, n) == seq

\* array.slice(0, n)
Slice0(seq, n) == SubSeq(seq, 1, IF Len(seq) < n THEN Len(seq) ELSE n)

----------------------------------------------------------------------------
(* Skill records and the pure helpers of useSkillsData *)

\* type SkillSource
SkillSources ==
    {"project-universal", "global-universal", "project-claude", "global-claude",
     "project-other"}

\* Skill.priority: 1 | 2 | 3 | 4 | 5
SkillPriorities == 1..5

Slash == "/"
Newline == "\n"

\* '.agent/skills/'
UniversalMarker == <<".", "agent", "/", "skills", "/">>

\* '.claude/skills/'
ClaudeMarker == <<".", "claude", "/", "skills", "/">>

\* 'SKILL.md'
SkillMdName == <<"SKILL", ".", "md">>

\* 'Unknown Skill'
UnknownSkillName == <<"Unknown", " ", "Skill">>

\* 'No description available'
NoDescription == <<"No", " ", "description", " ", "available">>

\* A variant of determineSkillSource that tests the markers in the other order.
determineSkillSourceClaudeFirst(path) ==
    IF Includes(path, ClaudeMarker)
    THEN [source |-> "project-claude", priority |-> 3]
    ELSE IF Includes(path, UniversalMarker)
    THEN [source |-> "project-universal", priority |-> 1]
    ELSE [source |-> "project-other", priority |-> 5]

\* determineSkillSource(path)
determineSkillSource(path) ==
    IF Includes(path, UniversalMarker)
    THEN [source |-> "project-universal", priority |-> 1]
    ELSE IF Includes(path, ClaudeMarker)
    THEN [source |-> "project-claude", priority |-> 3]
    ELSE [source |-> "project-other", priority |-> 5]

\* A variant of findSkillFiles that takes every markdown file.
findSkillFilesAnyMarkdown(fileTree) ==
    LET IsMarkdown(file) ==
            /\ Len(file.name) >= 2
            /\ SubSeq(file.name, Len(file.name) - 1, Len(file.name)) = <<".", "md">>
    IN  RelativePaths(SelectSeq(fileTree, IsMarkdown))

\* findSkillFiles(fileTree): fileTree is the allFiles array.
findSkillFiles(fileTree) ==
    LET IsSkillFile(file) == file.name = SkillMdName
    IN  RelativePaths(SelectSeq(fileTree, IsSkillFile))

\* A variant of analyzeSkillStructure that raises each flag whenever the skill's
\* folder holds any file at all.
analyzeSkillStructureFlagsFromFolder(fileTree, skillPath) ==
    LET skillDir == Substring0(skillPath, LastIndexOf(skillPath, Slash))
        InSkillDir(file) == StartsWith(file.relativePath, skillDir \o <<Slash>>)
        skillFiles == SelectSeq(fileTree, InSkillDir)
        InScripts(f) ==
            StartsWith(f.relativePath, skillDir \o <<Slash, "scripts", Slash>>)
        InReferences(f) ==
            StartsWith(f.relativePath, skillDir \o <<Slash, "references", Slash>>)
        InAssets(f) ==
            StartsWith(f.relativePath, skillDir \o <<Slash, "assets", Slash>>)
    IN  [skillFolderPath |-> skillDir,
         hasScripts |-> Len(skillFiles) > 0,
         hasReferences |-> Len(skillFiles) > 0,
         hasAssets |-> Len(skillFiles) > 0,
         scriptFiles |-> Names(SelectSeq(skillFiles, InScripts)),
         referenceFiles |-> Names(SelectSeq(skillFiles, InReferences)),
         assetFiles |-> Names(SelectSeq(skillFiles, InAssets))]

\* analyzeSkillStructure(fileTree, skillPath)
analyzeSkillStructure(fileTree, skillPath) ==
    LET skillDir == Substring0(skillPath, LastIndexOf(skillPath, Slash))
        InSkillDir(file) == StartsWith(file.relativePath, skillDir \o <<Slash>>)
        skillFiles == SelectSeq(fileTree, InSkillDir)
        InScripts(f) ==
            StartsWith(f.relativePath, skillDir \o <<Slash, "scripts", Slash>>)
        InReferences(f) ==
            StartsWith(f.relativePath, skillDir \o <<Slash, "references", Slash>>)
        InAssets(f) ==
            StartsWith(f.relativePath, skillDir \o <<Slash, "assets", Slash>>)
        scriptFiles == Names(SelectSeq(skillFiles, InScripts))
        referenceFiles == Names(SelectSeq(skillFiles, InReferences))
        assetFiles == Names(SelectSeq(skillFiles, InAssets))
    IN  [skillFolderPath |-> skillDir,
         hasScripts |-> Len(scriptFiles) > 0,
         hasReferences |-> Len(referenceFiles) > 0,
         hasAssets |-> Len(assetFiles) > 0,
         scriptFiles |-> scriptFiles,
         referenceFiles |-> referenceFiles,
         assetFiles |-> assetFiles]

\* A variant of ScanDescription that does not wait for a heading.
RECURSIVE ScanDescriptionAnyLine(_, _)
ScanDescriptionAnyLine(lines, foundHeading) ==
    IF Len(lines) = 0 THEN <<>>
    ELSE IF StartsWith(lines[1], <<"#">>)
    THEN ScanDescriptionAnyLine(Tail(lines), TRUE)
    ELSE IF Trim(lines[1]) # <<>>
    THEN Trim(lines[1])
    ELSE ScanDescriptionAnyLine(Tail(lines), foundHeading)

\* The description loop of parseSkillContent: '' when no line qualifies.
RECURSIVE ScanDescription(_, _)
ScanDescription(lines, foundHeading) ==
    IF Len(lines) = 0 THEN <<>>
    ELSE LET line == lines[1]
         IN  IF StartsWith(line, <<"#">>)
             THEN ScanDescription(Tail(lines), TRUE)
             ELSE IF foundHeading /\ Trim(line) # <<>>
             THEN Trim(line)
             ELSE ScanDescription(Tail(lines), foundHeading)

\* line.match(/^[\s]*[-*]\s+(.+)/): <<group 1>> on a match, <<>> on none.
\* \s+ is greedy and gives back one atom when nothing else is left for (.+);
\* "." does not match a carriage return.
BulletMatch(line) ==
    LET rest == TrimStart(line)
    IN  IF Len(rest) = 0 \/ rest[1] \notin {"-", "*"} THEN <<>>
        ELSE LET after == Tail(rest)
                 text == TrimStart(after)
                 gap == Len(after) - Len(text)
                 UpToCr(s) ==
                     LET crs == {i \in 1..Len(s) : s[i] = "\r"}
                     IN  IF crs = {} THEN s
                         ELSE SubSeq(s, 1, (CHOOSE i \in crs : \A j \in crs : i <= j) - 1)
             IN  IF gap = 0 THEN <<>>
                 ELSE IF Len(text) > 0 THEN <<UpToCr(text)>>
                 ELSE LET ks == {k \in 2..gap : after[k] # "\r"}
                      IN  IF ks = {} THEN <<>>
                          ELSE <<<<after[CHOOSE k \in ks : \A j \in ks : j <= k]>>>>

\* The capabilities loop of parseSkillContent, before the slice.
RECURSIVE ScanCapabilities(_)
ScanCapabilities(lines) ==
    IF Len(lines) = 0 THEN <<>>
    ELSE LET m == BulletMatch(lines[1])
         IN  (IF m # <<>> THEN <<Trim(m[1])>> ELSE <<>>) \o ScanCapabilities(Tail(lines))

\* parseSkillContent(content, path, fileTree)
parseSkillContent(content, path, fileTree) ==
    LET pathParts == Split(path, Slash)
        skillDirName ==
            IF Len(pathParts) >= 2 /\ pathParts[Len(pathParts) - 1] # <<>>
            THEN pathParts[Len(pathParts) - 1]
            ELSE UnknownSkillName
        lines == Split(content, Newline)
        description == ScanDescription(lines, FALSE)
        capabilities == ScanCapabilities(lines)
        structure == analyzeSkillStructure(fileTree, path)
        sp == determineSkillSource(path)
    IN  [id |-> path,
         name |-> ReplaceAll(ReplaceAll(skillDirName, "-", " "), "_", " "),
         path |-> path,
         description |-> IF description # <<>> THEN description ELSE NoDescription,
         content |-> content,
         capabilities |-> Slice0(capabilities, 3),
         skillFolderPath |-> structure.skillFolderPath,
         hasScripts |-> structure.hasScripts,
         hasReferences |-> structure.hasReferences,
         hasAssets |-> structure.hasAssets,
         scriptFiles |-> structure.scriptFiles,
         referenceFiles |-> structure.referenceFiles,
         assetFiles |-> structure.assetFiles,
         source |-> sp.source,
         priority |-> sp.priority]

----------------------------------------------------------------------------
(* Host inputs: file trees, file contents, global skills, contexts *)

\* A file entry of FileTree.allFiles, as PathsFileTreeBuilder builds it from a path.
FileEntry(path) ==
    LET parts == Split(path, Slash)
    IN  [name |-> parts[Len(parts)], relativePath |-> path]

PdfSkillPath == <<".", "agent", "/", "skills", "/", "pdf", "/", "SKILL", ".", "md">>
DocxSkillPath == <<".", "claude", "/", "skills", "/", "docx", "/", "SKILL", ".", "md">>
PdfScriptPath ==
    <<".", "agent", "/", "skills", "/", "pdf", "/", "scripts", "/", "run", ".", "sh">>
ReadmePath == <<"README", ".", "md">>

\* A repository with one universal skill (with a script) and one Claude skill.
RepoFileTree ==
    <<FileEntry(PdfSkillPath), FileEntry(PdfScriptPath),
      FileEntry(DocxSkillPath), FileEntry(ReadmePath)>>

\* A skill outside the two marker folders, and a repository with one skill of
\* each project category.
DepsSkillPath == <<"tools", "/", "deps", "/", "SKILL", ".", "md">>

FilterFileTree ==
    <<FileEntry(PdfSkillPath), FileEntry(DocxSkillPath), FileEntry(DepsSkillPath)>>

\* A repository with a single skill.
SmallFileTree == <<FileEntry(PdfSkillPath), FileEntry(PdfScriptPath)>>

\* What fileSystem.readFile resolves with for a skill path, when it resolves:
\* createSkillContent(title, description, capabilities).
FileContent(path) ==
    IF path = PdfSkillPath
    THEN <<"#", " ", "PDF", "\n", "Process", " ", "files", "\n", "-", " ", "Merge">>
    ELSE IF path = DepsSkillPath
    THEN <<"#", " ", "Deps", "\n", "Audit", " ", "packages", "\n",
           "-", " ", "Check", " ", "for", " ", "insecure", " ", "dependencies">>
    ELSE <<"#", " ", "DOCX", "\n", "Edit", " ", "documents", "\n", "*", " ", "Track">>

\* A host-supplied global skill with every field of Skill set.
GlobalSkill(id, name, path, source, priority, caps) ==
    [id |-> id, name |-> name, path |-> path,
     description |-> <<"Global", " ">> \o name,
     content |-> <<"#", " ">> \o name,
     capabilities |-> caps,
     skillFolderPath |-> Substring0(path, LastIndexOf(path, Slash)),
     hasScripts |-> FALSE, hasReferences |-> FALSE, hasAssets |-> FALSE,
     scriptFiles |-> <<>>, referenceFiles |-> <<>>, assetFiles |-> <<>>,
     source |-> source, priority |-> priority]

\* The value standing for a priority field the host left out.
UndefinedPriority == 0

\* The string standing for a source field the host left out.
UndefinedSource == "undefined"

\* The global skills of the skills-lifecycle stories: complete records.
SecurityAudit ==
    [GlobalSkill(<<"global:~", "/", ".", "agent", "/", "skills", "/", "security", "-", "audit">>,
                 <<"Security", " ", "Audit">>,
                 <<"/", "Users", "/", ".", "agent", "/", "skills", "/", "security", "-", "audit",
                   "/", "SKILL", ".", "md">>,
                 "global-universal", 2,
                 <<<<"Check", " ", "for", " ", "insecure", " ", "dependencies">>>>)
     EXCEPT !.hasScripts = TRUE,
            !.scriptFiles = <<<<"scan", ".", "sh">>,
                              <<"audit", "-", "dependencies", ".", "js">>>>,
            !.hasReferences = TRUE,
            !.referenceFiles = <<<<"owasp", "-", "checklist", ".", "md">>,
                                 <<"security", "-", "best", "-", "practices", ".", "md">>>>]

TranslationHelper ==
    [GlobalSkill(<<"global:~", "/", ".", "claude", "/", "skills", "/", "translation", "-", "helper">>,
                 <<"Translation", " ", "Helper">>,
                 <<"/", "Users", "/", ".", "claude", "/", "skills", "/", "translation", "-", "helper",
                   "/", "SKILL", ".", "md">>,
                 "global-claude", 4,
                 <<<<"Maintain", " ", "formatting">>>>)
     EXCEPT !.hasReferences = TRUE,
            !.referenceFiles = <<<<"language", "-", "codes", ".", "md">>,
                                 <<"glossary", ".", "md">>>>,
            !.hasAssets = TRUE,
            !.assetFiles = <<<<"terminology", "-", "database", ".", "json">>>>]

LifecycleGlobalSkills == <<SecurityAudit, TranslationHelper>>

\* The global skills of the browse-mode stories: only name, path and content are
\* set; id, source, priority and the structure fields are left out.
BrandGuidelines ==
    [GlobalSkill(Undefined, <<"brand", "-", "guidelines">>,
                 <<"/", "Users", "/", ".", "agent", "/", "skills", "/", "brand", "-", "guidelines",
                   "/", "SKILL", ".", "md">>,
                 UndefinedSource, UndefinedPriority, <<>>)
     EXCEPT !.description = Undefined, !.skillFolderPath = Undefined]

MeetingSummarizer ==
    [GlobalSkill(Undefined, <<"meeting", "-", "summarizer">>,
                 <<"/", "Users", "/", ".", "claude", "/", "skills", "/", "meeting", "-", "summarizer",
                   "/", "SKILL", ".", "md">>,
                 UndefinedSource, UndefinedPriority, <<>>)
     EXCEPT !.description = Undefined, !.skillFolderPath = Undefined]

BrowseGlobalSkills == <<BrandGuidelines, MeetingSummarizer>>

\* globalSkillsSlice?.data?.skills || []: the lists a host supplies.
GlobalSkillLists == {<<>>, LifecycleGlobalSkills, BrowseGlobalSkills}

\* The context values a host passes down: whether the fileTree slice has data (and
\* its allFiles), whether adapters.fileSystem.readFile exists, whether
\* currentScope.repository.path is set, and the global skills.
ContextValues ==
    {c \in [hasFileTree : BOOLEAN,
            fileTree : {<<>>, RepoFileTree, SmallFileTree, FilterFileTree},
            readFile : BOOLEAN, repoPath : BOOLEAN,
            globalSkills : GlobalSkillLists] :
        /\ c.hasFileTree <=> (c.fileTree # <<>>)
        /\ ~c.hasFileTree => (c.readFile /\ c.repoPath)
        /\ (c.hasFileTree /\ ~(c.readFile /\ c.repoPath))
              => (c.globalSkills = LifecycleGlobalSkills)
        /\ (c.fileTree = SmallFileTree)
              => (c.readFile /\ c.repoPath /\ c.globalSkills = <<>>)
        /\ (c.fileTree = FilterFileTree)
              => (c.repoPath /\ c.globalSkills = LifecycleGlobalSkills)}

\* The context objects, numbered: the state holds a context by its number.
RECURSIVE SetToSeq(_)
SetToSeq(S) ==
    IF S = {} THEN <<>>
    ELSE LET x == CHOOSE y \in S : TRUE IN <<x>> \o SetToSeq(S \ {x})

ContextSeq == SetToSeq(ContextValues)

Contexts == 1..Len(ContextSeq)

ContextValue(c) == ContextSeq[c]

----------------------------------------------------------------------------
(* useSkillsData: one instance per panel *)

\* The panels that call useSkillsData.
Hooks == {"list", "detail"}

\* At most this many loadSkills calls of one hook instance are suspended at once.
MaxPasses == 1

ErrNoFileSystem == <<"File system adapter not available">>
ErrNoRepoPath == <<"Repository path not available">>

\* No pass of the instance ended in the latest step.
NoPass ==
    [kind |-> "none", ctx |-> 0, paths |-> <<>>, settled |-> <<>>, before |-> <<>>]

\* The state of one hook instance.
HookState(h) ==
    [skills |-> skills[h], isLoading |-> isLoading[h], error |-> error[h],
     passes |-> passes[h], lastPass |-> lastPass[h], uncaught |-> uncaught[h]]

\* A variant of ItemCatch that rethrows the read failure.
ItemCatchRethrows(fault) == [thrown |-> TRUE, value |-> <<>>]

\* The inner catch of the per-skill promise: the failure is logged and the
\* promise resolves with null (the empty option).
ItemCatch(fault) == [thrown |-> FALSE, value |-> <<>>]

\* The per-skill async function: readFile, then parseSkillContent; a rejected
\* read goes to the inner catch.  The value is an option: <<skill>> or <<>> (null).
ReadSkill(ctx, skillPath, resolved) ==
    IF resolved
    THEN [thrown |-> FALSE,
          value |-> <<parseSkillContent(FileContent(skillPath), skillPath,
                                        ContextValue(ctx).fileTree)>>]
    ELSE ItemCatch(skillPath)

\* A variant of PromiseAll that hands out the values in completion order.
PromiseAllInCompletionOrder(pass) ==
    [k \in 1..Len(pass.settled) |-> pass.settled[k].value]

\* await Promise.all(skillPromises): the values in the order of the promises,
\* whatever order they settled in.
PromiseAll(pass) ==
    [i \in 1..Len(pass.paths) |->
        (CHOOSE e \in {pass.settled[k] : k \in 1..Len(pass.settled)} : e.idx = i).value]

\* .filter((skill) => skill !== null)
RECURSIVE NonNull(_)
NonNull(results) ==
    IF Len(results) = 0 THEN <<>> ELSE results[1] \o NonNull(Tail(results))

\* A variant of MergeSkills that leaves the global skills out.
MergeSkillsLocalOnly(localSkills, globalSkills) == localSkills

\* const allSkills = [...localSkills, ...globalSkills]
MergeSkills(localSkills, globalSkills) == localSkills \o globalSkills

\* A variant of LoadCatch that swallows the fault without setError.
LoadCatchSwallows(st, message) == st

\* The catch of loadSkills: the fault becomes the error string.
LoadCatch(st, message) == [st EXCEPT !.error = message]

\* A variant of LoadFinally that leaves the loading flag alone.
LoadFinallySkipped(st) == st

\* The finally of loadSkills.
LoadFinally(st) == [st EXCEPT !.isLoading = FALSE]

\* What a pass that has ended leaves in lastPass: its kind, context and reads,
\* and the list the instance held when the pass came to its end.
Ended(kind, pass, st) ==
    [kind |-> kind, ctx |-> pass.ctx, paths |-> pass.paths, settled |-> pass.settled,
     before |-> st.skills]

\* A variant of CommitPass that leaves the list alone when another pass has
\* ended since the loading flag was raised.
CommitPassUnlessSuperseded(st, pass) ==
    LET localSkills == NonNull(PromiseAll(pass))
        globalSkills == ContextValue(pass.ctx).globalSkills
        allSkills == MergeSkills(localSkills, globalSkills)
    IN  LoadFinally([st EXCEPT !.skills = IF st.isLoading THEN allSkills ELSE @,
                               !.lastPass = Ended("committed", pass, st)])

\* A variant of CommitPass that adds the new items to the list held before.
CommitPassAppends(st, pass) ==
    LET localSkills == NonNull(PromiseAll(pass))
        globalSkills == ContextValue(pass.ctx).globalSkills
        allSkills == MergeSkills(localSkills, globalSkills)
    IN  LoadFinally([st EXCEPT !.skills = @ \o allSkills,
                               !.lastPass = Ended("committed", pass, st)])

\* loadSkills from the end of the reads on: filter, merge, setSkills, finally.
CommitPass(st, pass) ==
    LET localSkills == NonNull(PromiseAll(pass))
        globalSkills == ContextValue(pass.ctx).globalSkills
        allSkills == MergeSkills(localSkills, globalSkills)
    IN  LoadFinally([st EXCEPT !.skills = allSkills,
                               !.lastPass = Ended("committed", pass, st)])

\* A variant of FailPass that also empties the list.
FailPassClearsList(st, pass, message) ==
    LoadFinally(LoadCatch([st EXCEPT !.skills = <<>>,
                                     !.lastPass = Ended("failed", pass, st)], message))

\* loadSkills when a fault reaches its catch: setError, finally.
FailPass(st, pass, message) ==
    LoadFinally(LoadCatch([st EXCEPT !.lastPass = Ended("failed", pass, st)], message))

\* A new pass: its context, the skill paths it reads, and the reads settled so far.
NewPass(ctx, paths, byRefresh) ==
    [ctx |-> ctx, paths |-> paths, settled |-> <<>>, byRefresh |-> byRefresh]

\* A variant of loadSkills that does not raise the loading flag.
loadSkillsWithoutLoadingFlag(st, ctx, byRefresh) ==
    LET started == [st EXCEPT !.error = Null, !.lastPass = NoPass]
        c == ContextValue(ctx)
    IN  IF c.hasFileTree
        THEN IF ~c.readFile
             THEN FailPass(started, NewPass(ctx, <<>>, byRefresh), ErrNoFileSystem)
             ELSE IF ~c.repoPath
             THEN FailPass(started, NewPass(ctx, <<>>, byRefresh), ErrNoRepoPath)
             ELSE LET skillPaths == findSkillFiles(c.fileTree)
                  IN  IF Len(skillPaths) = 0
                      THEN CommitPass(started, NewPass(ctx, skillPaths, byRefresh))
                      ELSE [started EXCEPT
                               !.passes = Append(@, NewPass(ctx, skillPaths, byRefresh))]
        ELSE CommitPass(started, NewPass(ctx, <<>>, byRefresh))

\* loadSkills up to its first suspension.  Without a file tree, or with no skill
\* file, nothing is awaited on a pending read and the call runs to its end.
loadSkills(st, ctx, byRefresh) ==
    LET started == [st EXCEPT !.isLoading = TRUE, !.error = Null, !.lastPass = NoPass]
        c == ContextValue(ctx)
    IN  IF c.hasFileTree
        THEN IF ~c.readFile
             THEN FailPass(started, NewPass(ctx, <<>>, byRefresh), ErrNoFileSystem)
             ELSE IF ~c.repoPath
             THEN FailPass(started, NewPass(ctx, <<>>, byRefresh), ErrNoRepoPath)
             ELSE LET skillPaths == findSkillFiles(c.fileTree)
                  IN  IF Len(skillPaths) = 0
                      THEN CommitPass(started, NewPass(ctx, skillPaths, byRefresh))
                      ELSE [started EXCEPT
                               !.passes = Append(@, NewPass(ctx, skillPaths, byRefresh))]
        ELSE CommitPass(started, NewPass(ctx, <<>>, byRefresh))

\* A variant of settleRead that commits as soon as one read has settled.
settleReadCommitsEarly(st, k, i, resolved) ==
    LET pass == st.passes[k]
        r == ReadSkill(pass.ctx, pass.paths[i], resolved)
        others == [j \in 1..(Len(st.passes) - 1) |->
                      IF j < k THEN st.passes[j] ELSE st.passes[j + 1]]
        now == [pass EXCEPT !.settled = Append(@, [idx |-> i, value |-> r.value])]
    IN  LoadFinally([st EXCEPT !.passes = others,
                               !.skills = MergeSkills(r.value,
                                              ContextValue(pass.ctx).globalSkills),
                               !.lastPass = Ended("committed", now, st)])

\* One read of pass k settles (resolved or rejected).  When it is the last one,
\* Promise.all settles and the call runs to its end in the same turn.
settleRead(st, k, i, resolved) ==
    LET pass == st.passes[k]
        r == ReadSkill(pass.ctx, pass.paths[i], resolved)
        others == [j \in 1..(Len(st.passes) - 1) |->
                      IF j < k THEN st.passes[j] ELSE st.passes[j + 1]]
        now == [pass EXCEPT !.settled = Append(@, [idx |-> i, value |-> r.value])]
    IN  IF r.thrown
        THEN FailPass([st EXCEPT !.passes = others], now, <<"Failed to read">>)
        ELSE IF Len(now.settled) = Len(pass.paths)
        THEN CommitPass([st EXCEPT !.passes = others], now)
        ELSE [st EXCEPT !.passes[k] = now, !.lastPass = NoPass]

\* The state of a hook instance that takes no part in a step.
Idle(h) == [HookState(h) EXCEPT !.lastPass = NoPass]

\* loadSkills would suspend at Promise.all under this context.
Suspends(ctx) ==
    LET c == ContextValue(ctx)
    IN  c.hasFileTree /\ c.readFile /\ c.repoPath /\ Len(findSkillFiles(c.fileTree)) > 0

\* The assignment of the hook instances' new states, new[h] being that of instance h.
SetHooks(new) ==
    \E f \in {new} :
        /\ skills' = [h \in Hooks |-> f[h].skills]
        /\ isLoading' = [h \in Hooks |-> f[h].isLoading]
        /\ error' = [h \in Hooks |-> f[h].error]
        /\ passes' = [h \in Hooks |-> f[h].passes]
        /\ lastPass' = [h \in Hooks |-> f[h].lastPass]
        /\ uncaught' = [h \in Hooks |-> f[h].uncaught]

\* SkillsListPanel.isRefreshing: true from handleRefresh's call of refreshSkills
\* until that call's promise settles.
isRefreshing ==
    \E k \in 1..Len(passes["list"]) : passes["list"][k].byRefresh

----------------------------------------------------------------------------
(* The event emitter, SkillsListPanel and SkillDetailPanel *)

\* At most this many events are emitted in a run.
MaxEvents == 2

\* PanelEventType, as far as the panels use it.
EventTypes == {"skill:selected", "panel:focus"}

\* The handler SkillDetailPanel registers for 'skill:selected'.
DetailSelectedHandler == "SkillDetailPanel.onSkillSelected"

\* events.on(type, handler): handlers.get(type).add(handler); a Set keeps
\* insertion order and holds a handler once.
on(hs, type, handler) ==
    IF \E n \in 1..Len(hs[type]) : hs[type][n] = handler
    THEN hs
    ELSE [hs EXCEPT ![type] = Append(@, handler)]

\* A variant of off that empties the handler set of the type.
offRemovesAll(hs, type, handler) == [hs EXCEPT ![type] = <<>>]

\* events.off(type, handler), and the cleanup function on(type, handler)
\* returns: handlers.get(type)?.delete(handler).
off(hs, type, handler) ==
    LET Other(h) == h # handler
    IN  [hs EXCEPT ![type] = SelectSeq(@, Other)]

\* The 'skill:selected' handler of SkillDetailPanel: the new selectedSkillId.
onSkillSelected(selectedSkillId, event) ==
    LET skillId == event.payload.skillId
    IN  IF Truthy(skillId) THEN skillId ELSE selectedSkillId

\* A variant of selectedSkillEffect that keeps the displayed skill when the
\* selected id is not in the list.
selectedSkillEffectKeepsStale(selectedSkillId, skillList, skill) ==
    IF Truthy(selectedSkillId) /\ Len(skillList) > 0
    THEN LET hits == {n \in 1..Len(skillList) : skillList[n].id = selectedSkillId}
         IN  IF hits = {} THEN skill
             ELSE <<skillList[CHOOSE n \in hits : \A m \in hits : n <= m]>>
    ELSE skill

\* The effect of SkillDetailPanel on [selectedSkillId, skills]: the new skill
\* (an option: <<skill>> or <<>> for null).
selectedSkillEffect(selectedSkillId, skillList, skill) ==
    IF Truthy(selectedSkillId) /\ Len(skillList) > 0
    THEN LET hits == {n \in 1..Len(skillList) : skillList[n].id = selectedSkillId}
         IN  IF hits = {} THEN <<>>
             ELSE <<skillList[CHOOSE n \in hits : \A m \in hits : n <= m]>>
    ELSE skill

\* A variant of callHandlers that stops after the first handler.
callHandlersFirstOnly(hs, event, st) ==
    IF Len(hs) = 0 THEN st
    ELSE LET called == [st EXCEPT !.delivered =
                            Append(@, [handler |-> hs[1], event |-> event])]
         IN  IF hs[1] = DetailSelectedHandler
             THEN [called EXCEPT !.detailSelectedSkillId = onSkillSelected(@, event)]
             ELSE called

\* events.emit(event): every handler registered for the event's type is called
\* once, in registration order.  The result is the state the handlers leave.
RECURSIVE callHandlers(_, _, _)
callHandlers(hs, event, st) ==
    IF Len(hs) = 0 THEN st
    ELSE LET called == [st EXCEPT !.delivered =
                            Append(@, [handler |-> hs[1], event |-> event])]
         IN  callHandlers(Tail(hs), event,
                 IF hs[1] = DetailSelectedHandler
                 THEN [called EXCEPT !.detailSelectedSkillId =
                                        onSkillSelected(@, event)]
                 ELSE called)

emit(event, st) == callHandlers(handlers[event.type], event, st)

\* A variant of SelectedEvent whose payload leaves out the skill record.
SelectedEventIdOnly(skill) ==
    [type |-> "skill:selected", source |-> "skills-list-panel",
     payload |-> [skillId |-> skill.id, skill |-> <<>>]]

\* The event handleSkillClick builds (timestamp: Date.now(), read by no handler
\* of the panels, is left out).
SelectedEvent(skill) ==
    [type |-> "skill:selected", source |-> "skills-list-panel",
     payload |-> [skillId |-> skill.id, skill |-> <<skill>>]]

\* The skills SkillsListPanel renders as cards.
RenderedSkills ==
    IF "list" \in mounted /\ ~isLoading["list"]
    THEN {skills["list"][n] : n \in 1..Len(skills["list"])}
    ELSE {}

\* The effect of SkillDetailPanel after a step that called setSkills in its hook.
DetailEffectAfterLoad ==
    detailSkill' =
        IF lastPass'["detail"].kind = "committed"
        THEN selectedSkillEffect(detailSelectedSkillId, skills'["detail"], detailSkill)
        ELSE detailSkill

\* What a step of the hooks leaves of the panels' state.
PanelsAfterLoad ==
    /\ DetailEffectAfterLoad
    /\ UNCHANGED <<listSelectedSkillId, emitted, delivered, detailSelectedSkillId>>

----------------------------------------------------------------------------
(* The operations *)

\* A panel is rendered for the first time: the mount effect of its
\* useSkillsData calls loadSkills.
Mount(p) ==
    /\ p \notin mounted
    /\ mounted' = mounted \cup {p}
    /\ SetHooks([h \in Hooks |->
            IF h = p THEN loadSkills(HookState(h), context, FALSE) ELSE Idle(h)])
    /\ handlers' = IF p = "detail"
                   THEN on(handlers, "skill:selected", DetailSelectedHandler)
                   ELSE handlers
    /\ PanelsAfterLoad
    /\ UNCHANGED <<context, classifyVars, parseVars, filterVars>>

\* The host passes a new context: loadSkills is recreated and the effect of every
\* rendered panel's hook calls it.  At most limit calls of an instance are
\* suspended at once.
ChangeContextWithin(c, limit) ==
    /\ c # context
    /\ mounted # {}
    /\ Suspends(c) => \A h \in mounted : Len(passes[h]) < limit
    /\ context' = c
    /\ SetHooks([h \in Hooks |->
            IF h \in mounted THEN loadSkills(HookState(h), c, FALSE) ELSE Idle(h)])
    /\ PanelsAfterLoad
    /\ UNCHANGED <<mounted, handlers, classifyVars, parseVars, filterVars>>

ChangeContext(c) == ChangeContextWithin(c, MaxPasses)

\* handleRefresh: the refresh button, disabled while isRefreshing || isLoading.
HandleRefreshWithin(limit) ==
    /\ "list" \in mounted
    /\ ~isRefreshing
    /\ ~isLoading["list"]
    /\ Suspends(context) => Len(passes["list"]) < limit
    /\ SetHooks([h \in Hooks |->
            IF h = "list" THEN loadSkills(HookState(h), context, TRUE) ELSE Idle(h)])
    /\ PanelsAfterLoad
    /\ UNCHANGED <<context, mounted, handlers, classifyVars, parseVars, filterVars>>

HandleRefresh == HandleRefreshWithin(MaxPasses)

\* The read of paths[i] of pass k of instance h is still pending.
Pending(h, k, i) ==
    \A n \in 1..Len(passes[h][k].settled) : passes[h][k].settled[n].idx # i

\* fileSystem.readFile resolves for one pending read.
ReadResolves(h, k, i) ==
    /\ Pending(h, k, i)
    /\ SetHooks([g \in Hooks |->
            IF g = h THEN settleRead(HookState(g), k, i, TRUE) ELSE Idle(g)])
    /\ PanelsAfterLoad
    /\ UNCHANGED <<context, mounted, handlers, classifyVars, parseVars, filterVars>>

\* fileSystem.readFile rejects for one pending read.
ReadRejects(h, k, i) ==
    /\ Pending(h, k, i)
    /\ SetHooks([g \in Hooks |->
            IF g = h THEN settleRead(HookState(g), k, i, FALSE) ELSE Idle(g)])
    /\ PanelsAfterLoad
    /\ UNCHANGED <<context, mounted, handlers, classifyVars, parseVars, filterVars>>

\* handleSkillClick(skill): a click on a rendered card.
handleSkillClick(skill) ==
    /\ skill \in RenderedSkills
    /\ Len(emitted) < MaxEvents
    /\ listSelectedSkillId' = skill.id
    /\ emitted' = Append(emitted, SelectedEvent(skill))
    /\ \E st \in {emit(SelectedEvent(skill),
                        [delivered |-> delivered,
                         detailSelectedSkillId |-> detailSelectedSkillId])} :
          /\ delivered' = st.delivered
          /\ detailSelectedSkillId' = st.detailSelectedSkillId
          /\ detailSkill' = selectedSkillEffect(st.detailSelectedSkillId,
                                                skills["detail"], detailSkill)
    /\ SetHooks([h \in Hooks |-> Idle(h)])
    /\ UNCHANGED <<context, mounted, handlers, classifyVars, parseVars, filterVars>>

----------------------------------------------------------------------------
(* The list panel alone, under every context *)

\* The contexts of the list panel's run: the two-skill repository or none.
HookContexts == {c \in Contexts : ContextValue(c).fileTree \in {<<>>, RepoFileTree}}

Init ==
    /\ context \in HookContexts
    /\ mounted = {}
    /\ skills = [h \in Hooks |-> <<>>]
    /\ isLoading = [h \in Hooks |-> TRUE]
    /\ error = [h \in Hooks |-> Null]
    /\ passes = [h \in Hooks |-> <<>>]
    /\ lastPass = [h \in Hooks |-> NoPass]
    /\ uncaught = [h \in Hooks |-> FALSE]
    /\ listSelectedSkillId = Null
    /\ handlers = [t \in EventTypes |-> <<>>]
    /\ emitted = <<>>
    /\ delivered = <<>>
    /\ detailSelectedSkillId = Null
    /\ detailSkill = <<>>
    /\ srcPath = <<>>
    /\ srcResult = <<>>
    /\ discoverArg = <<>>
    /\ discovered = <<>>
    /\ parseArgs = <<>>
    /\ parsed = <<>>
    /\ searchQuery = <<>>
    /\ skillFilter = "all"

Next ==
    \/ Mount("list")
    \/ \E c \in HookContexts : ChangeContext(c)
    \/ HandleRefresh
    \/ \E k \in 1..Len(passes["list"]) : \E i \in 1..Len(passes["list"][k].paths) :
          ReadResolves("list", k, i)
    \/ \E k \in 1..Len(passes["list"]) : \E i \in 1..Len(passes["list"][k].paths) :
          ReadRejects("list", k, i)

Spec == Init /\ [][Next]_vars

----------------------------------------------------------------------------
(* The list panel and the detail panel side by side on one event emitter *)

\* The contexts of the side-by-side run: the single-skill repository without
\* global skills, or no repository and the browse-mode global skills.
PanelContexts ==
    {c \in Contexts :
        LET v == ContextValue(c)
        IN  \/ v.fileTree = SmallFileTree
            \/ ~v.hasFileTree /\ v.globalSkills = BrowseGlobalSkills}

InitPanels ==
    /\ context \in PanelContexts
    /\ mounted = {}
    /\ skills = [h \in Hooks |-> <<>>]
    /\ isLoading = [h \in Hooks |-> TRUE]
    /\ error = [h \in Hooks |-> Null]
    /\ passes = [h \in Hooks |-> <<>>]
    /\ lastPass = [h \in Hooks |-> NoPass]
    /\ uncaught = [h \in Hooks |-> FALSE]
    /\ listSelectedSkillId = Null
    /\ handlers = [t \in EventTypes |-> <<>>]
    /\ emitted = <<>>
    /\ delivered = <<>>
    /\ detailSelectedSkillId = Null
    /\ detailSkill = <<>>
    /\ srcPath = <<>>
    /\ srcResult = <<>>
    /\ discoverArg = <<>>
    /\ discovered = <<>>
    /\ parseArgs = <<>>
    /\ parsed = <<>>
    /\ searchQuery = <<>>
    /\ skillFilter = "all"

NextPanels ==
    \/ \E p \in Hooks : Mount(p)
    \/ \E c \in PanelContexts : ChangeContext(c)
    \/ \E h \in Hooks : \E k \in 1..Len(passes[h]) : \E i \in 1..Len(passes[h][k].paths) :
          ReadResolves(h, k, i)
    \/ \E h \in Hooks : \E k \in 1..Len(passes[h]) : \E i \in 1..Len(passes[h][k].paths) :
          ReadRejects(h, k, i)
    \/ \E skill \in RenderedSkills : handleSkillClick(skill)

SpecPanels == InitPanels /\ [][NextPanels]_vars

----------------------------------------------------------------------------
(* determineSkillSource alone, over skill paths *)

\* A skill path has at most this many path pieces before 'SKILL.md'.
MaxPieces == 3

\* The pieces skill paths are put together from: the two markers, halves of
\* the universal marker, a near miss of it, and a plain folder.
PathPieces ==
    {UniversalMarker, ClaudeMarker, <<".", "agent", "/">>, <<"skills", "/">>,
     <<".", "agents", "/">>, <<"pdf", "/">>}

RECURSIVE Flatten(_)
Flatten(pieces) ==
    IF Len(pieces) = 0 THEN <<>> ELSE pieces[1] \o Flatten(Tail(pieces))

\* The relative paths of SKILL.md files the run classifies.
SkillPaths ==
    {Flatten(ps) \o SkillMdName :
        ps \in UNION {[1..n -> PathPieces] : n \in 0..MaxPieces}}

\* parseSkillContent classifies the path of a file findSkillFiles found.
Classify(path) ==
    /\ srcPath' = path
    /\ srcResult' = <<determineSkillSource(path)>>
    /\ UNCHANGED <<context, mounted, hookVars, panelVars, parseVars, filterVars>>

InitClassify ==
    /\ context \in HookContexts
    /\ ContextValue(context).fileTree = <<>>
    /\ ContextValue(context).globalSkills = <<>>
    /\ mounted = {}
    /\ skills = [h \in Hooks |-> <<>>]
    /\ isLoading = [h \in Hooks |-> TRUE]
    /\ error = [h \in Hooks |-> Null]
    /\ passes = [h \in Hooks |-> <<>>]
    /\ lastPass = [h \in Hooks |-> NoPass]
    /\ uncaught = [h \in Hooks |-> FALSE]
    /\ listSelectedSkillId = Null
    /\ handlers = [t \in EventTypes |-> <<>>]
    /\ emitted = <<>>
    /\ delivered = <<>>
    /\ detailSelectedSkillId = Null
    /\ detailSkill = <<>>
    /\ srcPath = <<>>
    /\ srcResult = <<>>
    /\ discoverArg = <<>>
    /\ discovered = <<>>
    /\ parseArgs = <<>>
    /\ parsed = <<>>
    /\ searchQuery = <<>>
    /\ skillFilter = "all"

NextClassify == \E path \in SkillPaths : Classify(path)

SpecClassify == InitClassify /\ [][NextClassify]_vars

----------------------------------------------------------------------------
(* findSkillFiles and parseSkillContent alone, over file trees and documents *)

\* A document has at most this many lines.
MaxLines == 4

\* A file tree of the parsing run has at most this many entries.
MaxEntries == 3

\* The sequences over S of length at most n.
SeqsUpTo(S, n) == UNION {[1..k -> S] : k \in 0..n}

\* The files of the trees handed to findSkillFiles: skill files in two folders
\* and at the root, a lower-case and a suffixed near miss, a metadata file, a
\* script and another markdown file.
DiscoverPaths ==
    {PdfSkillPath, DocxSkillPath, SkillMdName, PdfScriptPath, ReadmePath,
     <<".", "agent", "/", "skills", "/", "pdf", "/", "skill", ".", "md">>,
     <<".", "agent", "/", "skills", "/", "pdf", "/", "SKILL", ".", "md", ".", "bak">>,
     <<".", "agent", "/", "skills", "/", "pdf", "/", ".", "metadata", ".", "json">>}

\* The lines of the documents whose description is extracted.
DescriptionLines ==
    {<<"#", " ", "PDF">>, <<>>, <<" ", " ">>, <<"Process", " ", "files">>,
     <<" ", "Edit", " ", "documents", " ">>, <<"-", " ", "Merge">>}

\* The lines of the documents whose capabilities are extracted.
CapabilityLines ==
    {<<"-", " ", "A">>, <<"-", " ", "B">>, <<"*", " ", "C">>,
     <<" ", "-", " ", " ", "D", " ">>, <<"-", "E">>, <<"-", " ", " ">>,
     <<"Process", " ", "files">>}

\* The paths whose skill name is derived.
NamedPaths ==
    {PdfSkillPath, SkillMdName, <<"/">> \o SkillMdName,
     <<".", "agent", "/", "skills", "/">> \o SkillMdName,
     <<"skills", "/">> \o SkillMdName,
     <<".", "skills", "/", "code", "-", "reviewer", "/">> \o SkillMdName,
     <<".", "skills", "/", "my", "-", "sql", "_", "query", "-", "tool", "_", "v2", "/">>
        \o SkillMdName}

\* The files of the trees whose structure is analysed for the skill at
\* PdfSkillPath or at the root.
StructurePaths ==
    {PdfSkillPath, PdfScriptPath,
     <<".", "agent", "/", "skills", "/", "pdf", "/", "references", "/", "guide", ".", "md">>,
     <<".", "agent", "/", "skills", "/", "pdf", "/", "assets", "/", "logo", ".", "png">>,
     <<".", "agent", "/", "skills", "/", "pdfx", "/", "scripts", "/", "run", ".", "sh">>,
     <<"vendor", "/", ".", "agent", "/", "skills", "/", "pdf", "/", "assets", "/", "a", ".", "png">>,
     <<"scripts", "/", "build", ".", "sh">>}

\* The tree of a sequence of paths, as a sequence of file entries.
TreeOf(ps) == [i \in 1..Len(ps) |-> FileEntry(ps[i])]

\* The arguments of one call of parseSkillContent. The parsing run calls it on
\* documents for the description and for the capabilities, on paths for the
\* name, and on trees for the structure.
ParseArgs(content, path, tree) ==
    [content |-> content, path |-> path, fileTree |-> tree]

\* findSkillFiles(fileTree) is called on the file tree of the run.
Discover ==
    /\ discoverArg # <<>>
    /\ discovered = <<>>
    /\ discovered' = <<findSkillFiles(discoverArg[1])>>
    /\ UNCHANGED <<context, mounted, hookVars, panelVars, classifyVars,
                   discoverArg, parseArgs, parsed, filterVars>>

\* parseSkillContent(content, path, fileTree) is called on the arguments of the run.
Parse ==
    /\ parseArgs # <<>>
    /\ parsed = <<>>
    /\ parsed' = <<parseSkillContent(parseArgs[1].content, parseArgs[1].path,
                                     parseArgs[1].fileTree)>>
    /\ UNCHANGED <<context, mounted, hookVars, panelVars, classifyVars,
                   discoverArg, discovered, parseArgs, filterVars>>

InitParse ==
    /\ context \in HookContexts
    /\ ContextValue(context).fileTree = <<>>
    /\ ContextValue(context).globalSkills = <<>>
    /\ mounted = {}
    /\ skills = [h \in Hooks |-> <<>>]
    /\ isLoading = [h \in Hooks |-> TRUE]
    /\ error = [h \in Hooks |-> Null]
    /\ passes = [h \in Hooks |-> <<>>]
    /\ lastPass = [h \in Hooks |-> NoPass]
    /\ uncaught = [h \in Hooks |-> FALSE]
    /\ listSelectedSkillId = Null
    /\ handlers = [t \in EventTypes |-> <<>>]
    /\ emitted = <<>>
    /\ delivered = <<>>
    /\ detailSelectedSkillId = Null
    /\ detailSkill = <<>>
    /\ srcPath = <<>>
    /\ srcResult = <<>>
    /\ discovered = <<>>
    /\ parsed = <<>>
    /\ searchQuery = <<>>
    /\ skillFilter = "all"
    /\ \/ /\ \E ps \in SeqsUpTo(DiscoverPaths, MaxEntries) :
                discoverArg = <<TreeOf(ps)>>
          /\ parseArgs = <<>>
       \/ /\ discoverArg = <<>>
          /\ \/ \E lines \in SeqsUpTo(DescriptionLines, MaxLines) :
                   parseArgs = <<ParseArgs(Join(lines, <<Newline>>),
                                           PdfSkillPath, SmallFileTree)>>
             \/ \E lines \in SeqsUpTo(CapabilityLines, MaxLines) :
                   parseArgs = <<ParseArgs(Join(lines, <<Newline>>),
                                           PdfSkillPath, SmallFileTree)>>
             \/ \E path \in NamedPaths :
                   parseArgs = <<ParseArgs(FileContent(PdfSkillPath), path,
                                           SmallFileTree)>>
             \/ \E path \in {PdfSkillPath, SkillMdName} :
                \E ps \in SeqsUpTo(StructurePaths, MaxEntries) :
                   parseArgs = <<ParseArgs(FileContent(PdfSkillPath), path,
                                           TreeOf(ps))>>

NextParse ==
    \/ Discover
    \/ Parse

SpecParse == InitParse /\ [][NextParse]_vars

----------------------------------------------------------------------------
(* Properties of aggregation *)

\* The pass of the list panel's hook that ended in the latest step.
EndedPass == lastPass["list"]

\* The reads of the ended pass that resolved / rejected, as indexes into its paths.
ResolvedReads ==
    {EndedPass.settled[k].idx : k \in {n \in 1..Len(EndedPass.settled) :
                                          EndedPass.settled[n].value # <<>>}}
RejectedReads ==
    {EndedPass.settled[k].idx : k \in {n \in 1..Len(EndedPass.settled) :
                                          EndedPass.settled[n].value = <<>>}}

\* Position of a relative path in the file tree of context c (0 when absent).
TreePosition(c, path) ==
    LET tree == ContextValue(c).fileTree
        hits == {n \in 1..Len(tree) : tree[n].relativePath = path}
    IN  IF hits = {} THEN 0 ELSE CHOOSE n \in hits : \A m \in hits : n <= m

\* C1: in every list a discovery pass commits, the global items of the pass's
\* context are the tail of the list, in supplied order and untouched; before
\* them come exactly the items of the reads that resolved, one per path, in
\* the order of the paths in the file tree, whatever order the reads settled in.
C1_MergeOrder ==
    EndedPass.kind = "committed" =>
        LET list == skills["list"]
            globalSkills == ContextValue(EndedPass.ctx).globalSkills
            n == Len(list) - Len(globalSkills)
        IN  /\ n >= 0
            /\ SubSeq(list, n + 1, Len(list)) = globalSkills
            /\ n = Cardinality(ResolvedReads)
            /\ \A i \in ResolvedReads :
                  \E a \in 1..n : list[a].path = EndedPass.paths[i]
            /\ \A a, b \in 1..n :
                  a < b => /\ TreePosition(EndedPass.ctx, list[a].path) > 0
                           /\ TreePosition(EndedPass.ctx, list[a].path)
                                < TreePosition(EndedPass.ctx, list[b].path)

\* C1 happens: two local items whose reads settled in reverse order, merged with
\* two global items into a list of four.
C1_Witness ==
    /\ EndedPass.kind = "committed"
    /\ Len(EndedPass.settled) = 2
    /\ EndedPass.settled[1].idx = 2
    /\ ResolvedReads = {1, 2}
    /\ Len(ContextValue(EndedPass.ctx).globalSkills) = 2
    /\ Len(skills["list"]) = 4

\* C2: a pass in which one read rejected and another resolved ends by
\* committing; the committed list holds the item of every resolved path and no
\* item of a rejected path; the step leaves the error state as it was (null
\* when the context is still the one the pass started under), and no fault
\* escapes.
C2_ReadFailureDropsOnlyThatItem ==
    [][(/\ lastPass'["list"].kind # "none"
        /\ \E k \in 1..Len(lastPass'["list"].settled) :
              lastPass'["list"].settled[k].value = <<>>
        /\ \E k \in 1..Len(lastPass'["list"].settled) :
              lastPass'["list"].settled[k].value # <<>>)
       => LET pass == lastPass'["list"]
              list == skills'["list"]
          IN  /\ pass.kind = "committed"
              /\ \A k \in 1..Len(pass.settled) :
                    LET path == pass.paths[pass.settled[k].idx]
                        there == \E a \in 1..Len(list) : list[a].path = path
                    IN  (pass.settled[k].value # <<>>) <=> there
              /\ error'["list"] = error["list"]
              /\ (pass.ctx = context') => (error'["list"] = Null)
              /\ ~uncaught'["list"]
      ]_vars

\* C2 happens: a committed pass with one rejected and one resolved read.
C2_Witness ==
    /\ EndedPass.kind = "committed"
    /\ ResolvedReads # {}
    /\ RejectedReads # {}
    /\ Len(skills["list"]) = Cardinality(ResolvedReads)
                               + Len(ContextValue(EndedPass.ctx).globalSkills)

----------------------------------------------------------------------------
(* Properties of the failure paths *)

\* C5 (as the code has it): a pass that finds no file-tree snapshot runs to its
\* end at once and commits exactly the host's global skills (the empty list
\* only when the host supplies none), with the error state null and the
\* loading flag false.
C5_NoFileTreeCommitsGlobalSkills ==
    (EndedPass.kind # "none" /\ ~ContextValue(EndedPass.ctx).hasFileTree)
        => /\ EndedPass.kind = "committed"
           /\ skills["list"] = ContextValue(EndedPass.ctx).globalSkills
           /\ error["list"] = Null
           /\ ~isLoading["list"]

\* C5 happens: a pass without a file tree has ended and the host supplies
\* global skills.
C5_Witness ==
    /\ EndedPass.kind = "committed"
    /\ ~ContextValue(EndedPass.ctx).hasFileTree
    /\ ContextValue(EndedPass.ctx).globalSkills # <<>>
    /\ Len(skills["list"]) = Len(ContextValue(EndedPass.ctx).globalSkills)

\* C5 as stated: a pass that finds no file-tree snapshot results in an empty
\* list and a non-null error state.
C5_NoFileTreeIsEmptyWithError ==
    (EndedPass.kind # "none" /\ ~ContextValue(EndedPass.ctx).hasFileTree)
        => /\ skills["list"] = <<>>
           /\ error["list"] # Null

\* C6: a pass that finds a file tree but no readFile, or no repository path,
\* ends at once as a failure: the error state is 'File system adapter not
\* available' (readFile missing) or 'Repository path not available' (only the
\* path missing), never null, and the item list is the one from before the pass.
C6_MissingCapabilityIsHardFailure ==
    [][(/\ lastPass'["list"].kind # "none"
        /\ ContextValue(lastPass'["list"].ctx).hasFileTree
        /\ \/ ~ContextValue(lastPass'["list"].ctx).readFile
           \/ ~ContextValue(lastPass'["list"].ctx).repoPath)
       => /\ lastPass'["list"].kind = "failed"
          /\ error'["list"] =
                IF ~ContextValue(lastPass'["list"].ctx).readFile
                THEN <<"File system adapter not available">>
                ELSE <<"Repository path not available">>
          /\ error'["list"] # Null
          /\ skills'["list"] = skills["list"]
      ]_vars

\* C6 happens: a pass under a context with a file tree and no repository path
\* has failed while the list still shows earlier items.
C6_Witness ==
    /\ EndedPass.kind = "failed"
    /\ ContextValue(EndedPass.ctx).hasFileTree
    /\ ContextValue(EndedPass.ctx).readFile
    /\ ~ContextValue(EndedPass.ctx).repoPath
    /\ error["list"] = <<"Repository path not available">>
    /\ skills["list"] # <<>>

\* C7: a pass that has ended, committed or failed, leaves the loading flag false
\* and no unhandled fault; a failed pass leaves an error string; and a pass all
\* of whose reads have settled has ended.
C7_PassEndsLoadingFalse ==
    /\ EndedPass.kind # "none" =>
          /\ ~isLoading["list"]
          /\ ~uncaught["list"]
          /\ EndedPass.kind = "failed" => error["list"] # Null
    /\ ~uncaught["list"]
    /\ \A k \in 1..Len(passes["list"]) :
          Len(passes["list"][k].settled) < Len(passes["list"][k].paths)

\* C7 happens: a pass whose reads all settled has ended with the flag false.
C7_Witness ==
    /\ EndedPass.kind = "committed"
    /\ Len(EndedPass.paths) = 2
    /\ Len(EndedPass.settled) = 2
    /\ ~isLoading["list"]

----------------------------------------------------------------------------
(* Properties of the item records *)

\* C8 as stated: in every list a discovery pass commits, no two items have the
\* same id.
C8_IdsUnique ==
    EndedPass.kind = "committed" =>
        \A a, b \in 1..Len(skills["list"]) :
            a # b => skills["list"][a].id # skills["list"][b].id

\* The priority the Skill type documents for each source.
PriorityOfSource(source) ==
    CASE source = "project-universal" -> 1
      [] source = "global-universal" -> 2
      [] source = "project-claude" -> 3
      [] source = "global-claude" -> 4
      [] source = "project-other" -> 5
      [] OTHER -> -1

\* C9 as stated: every item of every committed list, local or global, has one
\* of the five sources and the priority that goes with it.
C9_PriorityDeterminedBySource ==
    EndedPass.kind = "committed" =>
        \A a \in 1..Len(skills["list"]) :
            /\ skills["list"][a].source \in SkillSources
            /\ skills["list"][a].priority = PriorityOfSource(skills["list"][a].source)

\* C10 (as the code has it): a path containing '.agent/skills/' is classified
\* project-universal with priority 1, whether or not it also contains
\* '.claude/skills/'; a path containing '.claude/skills/' and not
\* '.agent/skills/' is project-claude with priority 3; a path containing
\* neither is project-other with priority 5; no path is classified global-*.
C10_SourceClassification ==
    srcResult # <<>> =>
        LET r == srcResult[1]
        IN  /\ Includes(srcPath, <<".", "agent", "/", "skills", "/">>)
                  => (r.source = "project-universal" /\ r.priority = 1)
            /\ (/\ Includes(srcPath, <<".", "claude", "/", "skills", "/">>)
                /\ ~Includes(srcPath, <<".", "agent", "/", "skills", "/">>))
                  => (r.source = "project-claude" /\ r.priority = 3)
            /\ (/\ ~Includes(srcPath, <<".", "claude", "/", "skills", "/">>)
                /\ ~Includes(srcPath, <<".", "agent", "/", "skills", "/">>))
                  => (r.source = "project-other" /\ r.priority = 5)
            /\ r.source \notin {"global-universal", "global-claude"}

\* C10 happens: a path holding both markers, the tool-specific one first, has
\* been classified.
C10_Witness ==
    /\ srcResult # <<>>
    /\ srcPath = <<".", "claude", "/", "skills", "/", "pdf", "/",
                   ".", "agent", "/", "skills", "/", "SKILL", ".", "md">>
    /\ srcResult[1].source = "project-universal"

\* C10 as stated: every path containing '.claude/skills/' is project-claude
\* with priority 3 (and the other two cases as above).
C10_ClaudeMarkerAlwaysProjectClaude ==
    srcResult # <<>> =>
        LET r == srcResult[1]
        IN  /\ Includes(srcPath, <<".", "agent", "/", "skills", "/">>)
                  => (r.source = "project-universal" /\ r.priority = 1)
            /\ Includes(srcPath, <<".", "claude", "/", "skills", "/">>)
                  => (r.source = "project-claude" /\ r.priority = 3)
            /\ (/\ ~Includes(srcPath, <<".", "claude", "/", "skills", "/">>)
                /\ ~Includes(srcPath, <<".", "agent", "/", "skills", "/">>))
                  => (r.source = "project-other" /\ r.priority = 5)
            /\ r.source \notin {"global-universal", "global-claude"}

----------------------------------------------------------------------------
(* Properties of selection *)

\* The handler calls emit makes for an event: one per handler registered for
\* its type.
CallsFor(event) ==
    [n \in 1..Len(handlers[event.type]) |->
        [handler |-> handlers[event.type][n], event |-> event]]

\* C3: the selected id of the list panel and the log of published events change
\* only by a click on a rendered item, and that click records the item's id as
\* the selected id and publishes exactly one event: type 'skill:selected',
\* source 'skills-list-panel', payload the item's id and the full item record,
\* handed once to every handler subscribed to that type.
C3_ClickPublishesOneSelectedEvent ==
    [][(\/ emitted' # emitted
        \/ delivered' # delivered
        \/ listSelectedSkillId' # listSelectedSkillId)
       => \E skill \in RenderedSkills :
             LET event == [type |-> "skill:selected",
                           source |-> "skills-list-panel",
                           payload |-> [skillId |-> skill.id, skill |-> <<skill>>]]
             IN  /\ listSelectedSkillId' = skill.id
                 /\ emitted' = Append(emitted, event)
                 /\ delivered' = delivered \o CallsFor(event)
      ]_vars

\* C3 happens: a click on the repository's skill was published and handed to the
\* detail panel's handler.
C3_Witness ==
    /\ Len(emitted) = 1
    /\ listSelectedSkillId = PdfSkillPath
    /\ emitted[1].payload.skillId = PdfSkillPath
    /\ Len(delivered) = 1

\* The detail panel is subscribed to 'skill:selected'.
DetailSubscribed ==
    \E n \in 1..Len(handlers["skill:selected"]) :
        handlers["skill:selected"][n] = DetailSelectedHandler

\* C4 (as the code has it): when the list panel publishes the event for item X
\* and the detail panel is subscribed, the detail panel takes X's id as its
\* selected id if the id is truthy.  Its displayed item then follows from its
\* OWN list: with a non-empty list it becomes the first item of that list with
\* X's id, or null when there is none; with an empty list (its pass still in
\* flight, failed, or without result) and with a falsy id the displayed item
\* stays what it was.
C4_DetailFollowsOwnList ==
    [][(emitted' # emitted /\ DetailSubscribed)
       => LET id == emitted'[Len(emitted')].payload.skillId
              list == skills["detail"]
              hits == {n \in 1..Len(list) : list[n].id = id}
          IN  IF Truthy(id)
              THEN /\ detailSelectedSkillId' = id
                   /\ (list # <<>> /\ hits # {}) =>
                         detailSkill' =
                            <<list[CHOOSE n \in hits : \A m \in hits : n <= m]>>
                   /\ (list # <<>> /\ hits = {}) => detailSkill' = <<>>
                   /\ list = <<>> => detailSkill' = detailSkill
              ELSE /\ detailSelectedSkillId' = detailSelectedSkillId
                   /\ detailSkill' = detailSkill
      ]_vars

\* C4 happens: after a published event the detail panel displays the item of
\* its own list that has the event's id.
C4_Witness ==
    /\ emitted # <<>>
    /\ DetailSubscribed
    /\ delivered # <<>>
    /\ detailSkill # <<>>
    /\ detailSkill[1].id = emitted[Len(emitted)].payload.skillId
    /\ detailSelectedSkillId = detailSkill[1].id

\* C4 as stated: after the list panel publishes the event for item X, the
\* subscribed detail panel displays the item whose id is X's id, whatever the
\* state of its own discovery pass.
C4_DetailAlwaysShowsSelected ==
    [][(emitted' # emitted /\ DetailSubscribed)
       => /\ detailSkill' # <<>>
          /\ detailSkill'[1].id = emitted'[Len(emitted')].payload.skillId
      ]_vars

----------------------------------------------------------------------------
(* Properties of discovery and parsing *)

\* C11: for every file tree, findSkillFiles returns the relative paths of
\* exactly the entries named 'SKILL.md', one per entry and in the order of the
\* tree; no returned path is that of a metadata file (a name starting with
\* '.') or of any other file; a tree without such an entry gives the empty
\* sequence.
C11_DiscoveryReturnsSkillFiles ==
    discovered # <<>> =>
        LET tree == discoverArg[1]
            out == discovered[1]
            qualifying == {i \in 1..Len(tree) : tree[i].name = <<"SKILL", ".", "md">>}
        IN  /\ Len(out) = Cardinality(qualifying)
            /\ \E f \in [1..Len(out) -> 1..Len(tree)] :
                  /\ \A k \in 1..Len(out) :
                        /\ f[k] \in qualifying
                        /\ out[k] = tree[f[k]].relativePath
                  /\ \A k, l \in 1..Len(out) : k < l => f[k] < f[l]
            /\ \A k \in 1..Len(out) :
                  \A i \in 1..Len(tree) :
                      (tree[i].relativePath = out[k]) => (tree[i].name[1] # ".")
            /\ (qualifying = {}) => (out = <<>>)

\* C11 happens: a tree with two skill files around a metadata file gave the two
\* skill paths in tree order.
C11_Witness ==
    /\ discovered # <<>>
    /\ Len(discoverArg[1]) = 3
    /\ discoverArg[1][2].name = <<".", "metadata", ".", "json">>
    /\ discovered[1] = <<DocxSkillPath, PdfSkillPath>>

\* The lines of the document handed to parseSkillContent.
ParsedLines == Split(parseArgs[1].content, "\n")

\* Line i of the document begins with '#'.
IsHeadingLine(i) == Len(ParsedLines[i]) > 0 /\ ParsedLines[i][1] = "#"

\* Line i of the document holds something other than white space.
IsNonBlankLine(i) ==
    \E k \in 1..Len(ParsedLines[i]) : ParsedLines[i][k] \notin {" ", "\t", "\r"}

\* C12: the description of a parsed item is the trimmed text of the first line
\* that comes after the first heading line (a line beginning with '#'), is not
\* itself a heading and is not blank (empty, or white space only); later lines
\* do not matter.  With no heading, or no such line after it, the description
\* is 'No description available'.
C12_DescriptionAfterFirstHeading ==
    parsed # <<>> =>
        LET headings == {i \in 1..Len(ParsedLines) : IsHeadingLine(i)}
            candidates ==
                {i \in 1..Len(ParsedLines) :
                    /\ \E h \in headings : h < i
                    /\ ~IsHeadingLine(i)
                    /\ IsNonBlankLine(i)}
        IN  parsed[1].description =
                IF candidates = {}
                THEN <<"No", " ", "description", " ", "available">>
                ELSE Trim(ParsedLines[CHOOSE i \in candidates :
                                         \A j \in candidates : i <= j])

\* C12 happens: a heading, an empty line, a padded paragraph and a further line
\* gave the paragraph's trimmed text.
C12_Witness ==
    /\ parsed # <<>>
    /\ parseArgs[1].content =
          <<"#", " ", "PDF", "\n", "\n", " ", "Edit", " ", "documents", " ", "\n",
            "Process", " ", "files">>
    /\ parsed[1].description = <<"Edit", " ", "documents">>

\* Line i of the document is a bullet line: optional white space, '-' or '*',
\* at least one white-space character, and at least one further character.
IsBulletLine(i) ==
    LET line == ParsedLines[i]
        marks == {k \in 1..Len(line) :
                     /\ line[k] \in {"-", "*"}
                     /\ \A j \in 1..(k - 1) : line[j] \in {" ", "\t"}}
    IN  \E k \in marks :
            /\ Len(line) >= k + 2
            /\ line[k + 1] \in {" ", "\t"}

\* The text of bullet line i: what follows the marker, without the white space
\* around it.
BulletText(i) ==
    LET line == ParsedLines[i]
        k == CHOOSE m \in 1..Len(line) : line[m] \in {"-", "*"}
    IN  Trim(SubSeq(line, k + 1, Len(line)))

ParsedPathParts == Split(parseArgs[1].path, "/")

\* A name with every hyphen and underscore turned into a space.
Spaced(name) ==
    [i \in 1..Len(name) |-> IF name[i] \in {"-", "_"} THEN " " ELSE name[i]]

\* C14 (as the code has it): the name of a parsed item is the name of the
\* directory that holds the file, with every hyphen and underscore replaced by
\* a space, also when that directory is literally named 'skills'; for a path
\* without a parent segment (or with an empty one) the name is 'Unknown Skill'.
C14_NameIsParentDirectory ==
    parsed # <<>> =>
        LET n == Len(ParsedPathParts)
        IN  parsed[1].name =
                IF n >= 2 /\ ParsedPathParts[n - 1] # <<>>
                THEN Spaced(ParsedPathParts[n - 1])
                ELSE <<"Unknown", " ", "Skill">>

\* C14 happens: a path whose parent directory has hyphens and underscores has
\* been parsed.
C14_Witness ==
    /\ parsed # <<>>
    /\ parseArgs[1].path =
          <<".", "skills", "/", "my", "-", "sql", "_", "query", "-", "tool", "_", "v2", "/",
            "SKILL", ".", "md">>
    /\ parsed[1].name = <<"my", " ", "sql", " ", "query", " ", "tool", " ", "v2">>

\* C14 as stated: a file directly inside a directory named 'skills' is named
\* after the file itself, extension stripped; any other file with a parent
\* directory is named after that directory; hyphens and underscores become
\* spaces.
C14_SkillsDirectoryUsesFileName ==
    parsed # <<>> =>
        LET n == Len(ParsedPathParts)
            file == ParsedPathParts[n]
            dots == {i \in 1..Len(file) : file[i] = "."}
            stem == IF dots = {} THEN file
                    ELSE SubSeq(file, 1, (CHOOSE i \in dots : \A j \in dots : j <= i) - 1)
        IN  (n >= 2 /\ ParsedPathParts[n - 1] # <<>>) =>
                parsed[1].name =
                    IF ParsedPathParts[n - 1] = <<"skills">>
                    THEN Spaced(stem)
                    ELSE Spaced(ParsedPathParts[n - 1])

\* The directory of the parsed item: its path without the last segment.
ParsedItemDir ==
    Join(SubSeq(ParsedPathParts, 1, Len(ParsedPathParts) - 1), <<"/">>)

\* Some entry of the file tree handed to parseSkillContent has a relative path
\* that begins with '<itemDir>/<folder>/'.
HasEntryUnder(folder) ==
    LET prefix == ParsedItemDir \o <<"/", folder, "/">>
        tree == parseArgs[1].fileTree
    IN  \E i \in 1..Len(tree) :
            /\ Len(tree[i].relativePath) >= Len(prefix)
            /\ \A k \in 1..Len(prefix) : tree[i].relativePath[k] = prefix[k]

\* C15: for a parsed item with directory itemDir, hasScripts is true exactly
\* when some file-tree entry's relative path begins with '<itemDir>/scripts/',
\* hasReferences exactly when one begins with '<itemDir>/references/', and
\* hasAssets exactly when one begins with '<itemDir>/assets/'.
C15_StructureFlags ==
    parsed # <<>> =>
        /\ parsed[1].hasScripts <=> HasEntryUnder("scripts")
        /\ parsed[1].hasReferences <=> HasEntryUnder("references")
        /\ parsed[1].hasAssets <=> HasEntryUnder("assets")

\* C15 happens: the item's folder has a script, and the only assets lie under
\* another root that merely contains the item's folder path.
C15_Witness ==
    /\ parsed # <<>>
    /\ parseArgs[1].path = PdfSkillPath
    /\ Len(parseArgs[1].fileTree) = 3
    /\ \E i \in 1..3 : parseArgs[1].fileTree[i].relativePath = PdfScriptPath
    /\ \E i \in 1..3 : parseArgs[1].fileTree[i].relativePath[1] = "vendor"
    /\ parsed[1].hasScripts
    /\ ~parsed[1].hasAssets

(***************************************************************************)
(* Properties of the structure flags in the aggregated list                *)
(***************************************************************************)

----------------------------------------------------------------------------
(* The search box and the category toggle of SkillsListPanel *)

\* The characters of each piece of text that occurs in the names, descriptions,
\* capabilities and paths of the run's skills and in its search queries.
AtomChars(a) ==
    CASE a = "." -> <<".">>
      [] a = "agent" -> <<"a", "g", "e", "n", "t">>
      [] a = "/" -> <<"/">>
      [] a = "skills" -> <<"s", "k", "i", "l", "l", "s">>
      [] a = "pdf" -> <<"p", "d", "f">>
      [] a = "SKILL" -> <<"S", "K", "I", "L", "L">>
      [] a = "md" -> <<"m", "d">>
      [] a = "claude" -> <<"c", "l", "a", "u", "d", "e">>
      [] a = "docx" -> <<"d", "o", "c", "x">>
      [] a = "tools" -> <<"t", "o", "o", "l", "s">>
      [] a = "deps" -> <<"d", "e", "p", "s">>
      [] a = "#" -> <<"#">>
      [] a = " " -> <<" ">>
      [] a = "PDF" -> <<"P", "D", "F">>
      [] a = "\n" -> <<"\n">>
      [] a = "Process" -> <<"P", "r", "o", "c", "e", "s", "s">>
      [] a = "files" -> <<"f", "i", "l", "e", "s">>
      [] a = "-" -> <<"-">>
      [] a = "Merge" -> <<"M", "e", "r", "g", "e">>
      [] a = "Deps" -> <<"D", "e", "p", "s">>
      [] a = "Audit" -> <<"A", "u", "d", "i", "t">>
      [] a = "packages" -> <<"p", "a", "c", "k", "a", "g", "e", "s">>
      [] a = "Check" -> <<"C", "h", "e", "c", "k">>
      [] a = "for" -> <<"f", "o", "r">>
      [] a = "insecure" -> <<"i", "n", "s", "e", "c", "u", "r", "e">>
      [] a = "dependencies" -> <<"d", "e", "p", "e", "n", "d", "e", "n", "c", "i", "e", "s">>
      [] a = "DOCX" -> <<"D", "O", "C", "X">>
      [] a = "Edit" -> <<"E", "d", "i", "t">>
      [] a = "documents" -> <<"d", "o", "c", "u", "m", "e", "n", "t", "s">>
      [] a = "*" -> <<"*">>
      [] a = "Track" -> <<"T", "r", "a", "c", "k">>
      [] a = "Global" -> <<"G", "l", "o", "b", "a", "l">>
      [] a = "global:~" -> <<"g", "l", "o", "b", "a", "l", ":", "~">>
      [] a = "security" -> <<"s", "e", "c", "u", "r", "i", "t", "y">>
      [] a = "audit" -> <<"a", "u", "d", "i", "t">>
      [] a = "Security" -> <<"S", "e", "c", "u", "r", "i", "t", "y">>
      [] a = "Users" -> <<"U", "s", "e", "r", "s">>
      [] a = "scan" -> <<"s", "c", "a", "n">>
      [] a = "sh" -> <<"s", "h">>
      [] a = "js" -> <<"j", "s">>
      [] a = "owasp" -> <<"o", "w", "a", "s", "p">>
      [] a = "checklist" -> <<"c", "h", "e", "c", "k", "l", "i", "s", "t">>
      [] a = "best" -> <<"b", "e", "s", "t">>
      [] a = "practices" -> <<"p", "r", "a", "c", "t", "i", "c", "e", "s">>
      [] a = "translation" -> <<"t", "r", "a", "n", "s", "l", "a", "t", "i", "o", "n">>
      [] a = "helper" -> <<"h", "e", "l", "p", "e", "r">>
      [] a = "Translation" -> <<"T", "r", "a", "n", "s", "l", "a", "t", "i", "o", "n">>
      [] a = "Helper" -> <<"H", "e", "l", "p", "e", "r">>
      [] a = "Maintain" -> <<"M", "a", "i", "n", "t", "a", "i", "n">>
      [] a = "formatting" -> <<"f", "o", "r", "m", "a", "t", "t", "i", "n", "g">>
      [] a = "language" -> <<"l", "a", "n", "g", "u", "a", "g", "e">>
      [] a = "codes" -> <<"c", "o", "d", "e", "s">>
      [] a = "glossary" -> <<"g", "l", "o", "s", "s", "a", "r", "y">>
      [] a = "terminology" -> <<"t", "e", "r", "m", "i", "n", "o", "l", "o", "g", "y">>
      [] a = "database" -> <<"d", "a", "t", "a", "b", "a", "s", "e">>
      [] a = "json" -> <<"j", "s", "o", "n">>
      [] a = "brand" -> <<"b", "r", "a", "n", "d">>
      [] a = "guidelines" -> <<"g", "u", "i", "d", "e", "l", "i", "n", "e", "s">>
      [] a = "meeting" -> <<"m", "e", "e", "t", "i", "n", "g">>
      [] a = "summarizer" -> <<"s", "u", "m", "m", "a", "r", "i", "z", "e", "r">>
      [] a = "No" -> <<"N", "o">>
      [] a = "description" -> <<"d", "e", "s", "c", "r", "i", "p", "t", "i", "o", "n">>
      [] a = "available" -> <<"a", "v", "a", "i", "l", "a", "b", "l", "e">>
      [] a = "Unknown" -> <<"U", "n", "k", "n", "o", "w", "n">>
      [] a = "Skill" -> <<"S", "k", "i", "l", "l">>
      [] a = "pack" -> <<"p", "a", "c", "k">>
      [] a = "d" -> <<"d">>
      [] a = "zzz" -> <<"z", "z", "z">>

\* The characters of a string.
RECURSIVE Chars(_)
Chars(s) == IF Len(s) = 0 THEN <<>> ELSE AtomChars(s[1]) \o Chars(Tail(s))

\* One character of s.toLowerCase(): the capital letters are lowered, every
\* other character is kept.
LowerChar(c) ==
    CASE c = "A" -> "a"
      [] c = "B" -> "b"
      [] c = "C" -> "c"
      [] c = "D" -> "d"
      [] c = "E" -> "e"
      [] c = "F" -> "f"
      [] c = "G" -> "g"
      [] c = "H" -> "h"
      [] c = "I" -> "i"
      [] c = "J" -> "j"
      [] c = "K" -> "k"
      [] c = "L" -> "l"
      [] c = "M" -> "m"
      [] c = "N" -> "n"
      [] c = "O" -> "o"
      [] c = "P" -> "p"
      [] c = "Q" -> "q"
      [] c = "R" -> "r"
      [] c = "S" -> "s"
      [] c = "T" -> "t"
      [] c = "U" -> "u"
      [] c = "V" -> "v"
      [] c = "W" -> "w"
      [] c = "X" -> "x"
      [] c = "Y" -> "y"
      [] c = "Z" -> "z"
      [] OTHER -> c

\* s.toLowerCase(), as characters.
toLowerCase(s) == LET cs == Chars(s) IN [i \in 1..Len(cs) |-> LowerChar(cs[i])]

\* The texts typed into the search box: empty, blank, words, a padded
\* capitalised word, a phrase and a piece of a path.
SearchQueries ==
    {<<>>, <<" ", " ">>, <<"security">>, <<"insecure">>, <<" ", "PDF", " ">>,
     <<"Audit", " ", "pack">>, <<"skills", "/", "d">>, <<"zzz">>}

\* SkillFilter
SkillFilters == {"all", "project", "global"}

\* hasRepository: the fileTree slice has data.
hasRepository == ContextValue(context).hasFileTree

\* A variant of CategoryFilter whose 'project' view leaves out project-other.
CategoryFilterMarkersOnly(list, filter) ==
    LET IsProject(skill) == skill.source \in {"project-universal", "project-claude"}
        IsGlobal(skill) == skill.source \in {"global-universal", "global-claude"}
    IN  IF filter = "project" THEN SelectSeq(list, IsProject)
        ELSE IF filter = "global" THEN SelectSeq(list, IsGlobal)
        ELSE list

\* The filter by source type of filteredSkills.
CategoryFilter(list, filter) ==
    LET IsProject(skill) ==
            \/ skill.source = "project-universal"
            \/ skill.source = "project-claude"
            \/ skill.source = "project-other"
        IsGlobal(skill) ==
            \/ skill.source = "global-universal"
            \/ skill.source = "global-claude"
    IN  IF filter = "project" THEN SelectSeq(list, IsProject)
        ELSE IF filter = "global" THEN SelectSeq(list, IsGlobal)
        ELSE list

\* A variant of SearchNeedle that keeps the surrounding white space.
SearchNeedleUntrimmed(q) == toLowerCase(q)

\* const query = searchQuery.toLowerCase().trim()
SearchNeedle(q) == Trim(toLowerCase(q))

\* A variant of TextMatches that does not look at the capabilities.
TextMatchesWithoutCapabilities(skill, query) ==
    \/ Includes(toLowerCase(skill.name), query)
    \/ /\ skill.description # Undefined
       /\ Includes(toLowerCase(skill.description), query)
    \/ Includes(toLowerCase(skill.path), query)

\* The predicate of the filter by search query: name, description?,
\* capabilities?.some, path.
TextMatches(skill, query) ==
    \/ Includes(toLowerCase(skill.name), query)
    \/ /\ skill.description # Undefined
       /\ Includes(toLowerCase(skill.description), query)
    \/ \E n \in 1..Len(skill.capabilities) :
          Includes(toLowerCase(skill.capabilities[n]), query)
    \/ Includes(toLowerCase(skill.path), query)

\* The filter by search query of filteredSkills.
TextFilter(list, q) ==
    IF Truthy(Trim(q))
    THEN LET query == SearchNeedle(q)
             Matches(skill) == TextMatches(skill, query)
         IN  SelectSeq(list, Matches)
    ELSE list

\* filteredSkills: useMemo over [skills, searchQuery, skillFilter].
filteredSkills ==
    TextFilter(CategoryFilter(skills["list"], skillFilter), searchQuery)

\* A variant of SetSearchQuery that also empties the list.
SetSearchQueryClearsList(q) ==
    /\ "list" \in mounted
    /\ q # searchQuery
    /\ searchQuery' = q
    /\ SetHooks([h \in Hooks |->
            IF h = "list" THEN [Idle(h) EXCEPT !.skills = <<>>] ELSE Idle(h)])
    /\ UNCHANGED <<context, mounted, panelVars, classifyVars, parseVars, skillFilter>>

\* The search input's onChange, and the clear button: setSearchQuery(q).
SetSearchQuery(q) ==
    /\ "list" \in mounted
    /\ q # searchQuery
    /\ searchQuery' = q
    /\ SetHooks([h \in Hooks |-> Idle(h)])
    /\ UNCHANGED <<context, mounted, panelVars, classifyVars, parseVars, skillFilter>>

\* A button of the filter toggle, rendered when hasRepository:
\* setSkillFilter(f).
SetSkillFilter(f) ==
    /\ "list" \in mounted
    /\ hasRepository
    /\ f # skillFilter
    /\ skillFilter' = f
    /\ SetHooks([h \in Hooks |-> Idle(h)])
    /\ UNCHANGED <<context, mounted, panelVars, classifyVars, parseVars, searchQuery>>

\* The contexts of the filter run: the three-category repository with the
\* lifecycle global skills, with and without a file system, or no repository
\* and the browse-mode global skills.
\* Every read of the run resolves: a rejected read only shortens the list.
FilterContexts ==
    {c \in Contexts :
        LET v == ContextValue(c)
        IN  \/ v.fileTree = FilterFileTree
            \/ ~v.hasFileTree /\ v.globalSkills = BrowseGlobalSkills}

InitFilter ==
    /\ context \in FilterContexts
    /\ mounted = {}
    /\ skills = [h \in Hooks |-> <<>>]
    /\ isLoading = [h \in Hooks |-> TRUE]
    /\ error = [h \in Hooks |-> Null]
    /\ passes = [h \in Hooks |-> <<>>]
    /\ lastPass = [h \in Hooks |-> NoPass]
    /\ uncaught = [h \in Hooks |-> FALSE]
    /\ listSelectedSkillId = Null
    /\ handlers = [t \in EventTypes |-> <<>>]
    /\ emitted = <<>>
    /\ delivered = <<>>
    /\ detailSelectedSkillId = Null
    /\ detailSkill = <<>>
    /\ srcPath = <<>>
    /\ srcResult = <<>>
    /\ discoverArg = <<>>
    /\ discovered = <<>>
    /\ parseArgs = <<>>
    /\ parsed = <<>>
    /\ searchQuery = <<>>
    /\ skillFilter = "all"

NextFilter ==
    \/ Mount("list")
    \/ \E c \in FilterContexts : ChangeContext(c)
    \/ \E k \in 1..Len(passes["list"]) : \E i \in 1..Len(passes["list"][k].paths) :
          ReadResolves("list", k, i)
    \/ \E q \in SearchQueries : SetSearchQuery(q)
    \/ \E f \in SkillFilters : SetSkillFilter(f)

SpecFilter == InitFilter /\ [][NextFilter]_vars

----------------------------------------------------------------------------
(* Properties of the filtered view *)

\* The positions of the aggregated list whose item has its source in S.
PositionsWithSource(S) ==
    {n \in 1..Len(skills["list"]) : skills["list"][n].source \in S}

\* The view holds exactly the items at the positions in P, in list order.
ViewIsExactly(P) ==
    /\ Len(filteredSkills) = Cardinality(P)
    /\ \A n \in P :
          filteredSkills[Cardinality({m \in P : m <= n})] = skills["list"][n]

\* C17: without a search text, the 'project' view holds exactly the aggregated
\* items whose source is project-universal, project-claude or project-other
\* (so none whose source is a global one), the 'global' view exactly those
\* whose source is global-universal or global-claude, and the 'all' view is
\* the aggregated list; with a search text the view holds only such items.
C17_CategoryFilter ==
    LET wanted ==
            IF skillFilter = "project"
            THEN PositionsWithSource({"project-universal", "project-claude",
                                      "project-other"})
            ELSE IF skillFilter = "global"
            THEN PositionsWithSource({"global-universal", "global-claude"})
            ELSE 1..Len(skills["list"])
    IN  /\ Trim(searchQuery) = <<>> => ViewIsExactly(wanted)
        /\ \A k \in 1..Len(filteredSkills) :
              \E n \in wanted : filteredSkills[k] = skills["list"][n]
        /\ skillFilter = "all" /\ Trim(searchQuery) = <<>>
              => filteredSkills = skills["list"]

\* C17 happens: the list holds items of all five categories, no search text
\* is set, and the 'project' view shows the three project items.
C17_Witness ==
    /\ skillFilter = "project"
    /\ searchQuery = <<>>
    /\ {skills["list"][n].source : n \in 1..Len(skills["list"])}
          = {"project-universal", "project-claude", "project-other",
             "global-universal", "global-claude"}
    /\ Len(filteredSkills) = 3

\* The query the text filter looks for: the lowered characters of the search
\* text without the white space around them.
TrimmedLoweredQuery ==
    LET cs == Chars(searchQuery)
        inner == {i \in 1..Len(cs) : cs[i] \notin Whitespace}
        lo == CHOOSE i \in inner : \A j \in inner : i <= j
        hi == CHOOSE i \in inner : \A j \in inner : j <= i
    IN  IF inner = {} THEN <<>>
        ELSE [k \in 1..(hi - lo + 1) |-> LowerChar(cs[lo + k - 1])]

\* The lowered text holds the query as a run of consecutive characters.
HoldsQuery(text) ==
    LET t == toLowerCase(text)
        q == TrimmedLoweredQuery
    IN  \E start \in 0..(Len(t) - Len(q)) :
            \A k \in 1..Len(q) : t[start + k] = q[k]

\* The item passes the text filter as C18 words it.
PassesText(skill) ==
    \/ TrimmedLoweredQuery = <<>>
    \/ HoldsQuery(skill.name)
    \/ skill.description # Undefined /\ HoldsQuery(skill.description)
    \/ \E n \in 1..Len(skill.capabilities) : HoldsQuery(skill.capabilities[n])
    \/ HoldsQuery(skill.path)

\* C18: an item of the category view passes the text filter exactly when the
\* trimmed, lowercased query is a substring of its lowercased name,
\* description, some capability or path; with an empty or blank query every
\* item passes.
C18_TextFilter ==
    LET list == CategoryFilter(skills["list"], skillFilter)
    IN  ViewIsExactly({n \in 1..Len(skills["list"]) :
            /\ \E k \in 1..Len(list) : list[k] = skills["list"][n]
            /\ PassesText(skills["list"][n])})

\* C18 happens: a padded, capitalised query keeps one item of a longer list
\* through its name and drops the rest.
C18_Witness ==
    /\ skillFilter = "all"
    /\ searchQuery = <<" ", "PDF", " ">>
    /\ Len(skills["list"]) = 5
    /\ Len(filteredSkills) = 1
    /\ filteredSkills[1].name = <<"pdf">>

\* The capability text of C19.
InsecureDependencies ==
    <<"Check", " ", "for", " ", "insecure", " ", "dependencies">>

\* The items of the category view that list the capability of C19.
WithInsecureDependencies ==
    LET list == CategoryFilter(skills["list"], skillFilter)
    IN  {list[k] : k \in {n \in 1..Len(list) :
            \E c \in 1..Len(list[n].capabilities) :
                list[n].capabilities[c] = InsecureDependencies}}

\* The items the view shows.
ShownSkills == {filteredSkills[k] : k \in 1..Len(filteredSkills)}

\* C19 as amended: with the search text 'insecure', every item whose
\* capabilities contain 'Check for insecure dependencies' is shown, whatever
\* its name, description and path are.
C19_InsecureMatchesCapability ==
    searchQuery = <<"insecure">> => WithInsecureDependencies \subseteq ShownSkills

\* C19 happens: the search text is 'insecure' and the view shows an item that
\* has the capability while its name, description and path lack the word.
C19_Witness ==
    /\ searchQuery = <<"insecure">>
    /\ \E skill \in WithInsecureDependencies :
          /\ skill \in ShownSkills
          /\ skill.path = DepsSkillPath
          /\ skill.name = <<"deps">>
          /\ skill.description = <<"Audit", " ", "packages">>

\* C19 as stated: with the search text 'security', every item whose
\* capabilities contain 'Check for insecure dependencies' is shown.
C19_SecurityMatchesCapability ==
    searchQuery = <<"security">> => WithInsecureDependencies \subseteq ShownSkills

\* C20: a step that changes the category or the search text leaves the
\* aggregated list, the error and the loading flag as they were, and whenever
\* the category is 'all' and the search text is empty the view is the whole
\* aggregated list.
C20_FilteringIsNonDestructive ==
    [][/\ (searchQuery' # searchQuery \/ skillFilter' # skillFilter)
            => /\ skills'["list"] = skills["list"]
               /\ error'["list"] = error["list"]
               /\ isLoading'["list"] = isLoading["list"]
       /\ (skillFilter' = "all" /\ searchQuery' = <<>>)
            => filteredSkills' = skills'["list"]]_vars

\* C20 happens: the category and the search text were both changed so that
\* the view is empty, and the loaded list of five items is still there, with
\* no error and no loading.
C20_Witness ==
    /\ skillFilter = "global"
    /\ searchQuery = <<"zzz">>
    /\ filteredSkills = <<>>
    /\ Len(skills["list"]) = 5
    /\ error["list"] = Null
    /\ ~isLoading["list"]

----------------------------------------------------------------------------
(* The event channel alone: createMockEvents under on, off and emit *)

\* The handler the skills-lifecycle story registers for 'skill:selected'.
StorySelectedHandler == "SkillsLifecycle.onSkillSelected"

\* The handlers of the run.
ChannelHandlers == {DetailSelectedHandler, StorySelectedHandler}

\* The 'skill:selected' event a story emits for a skill id: the payload holds
\* the id only.
StorySelectedEvent(skillId) ==
    [type |-> "skill:selected", source |-> "storybook",
     payload |-> [skillId |-> skillId, skill |-> <<>>]]

\* The 'panel:focus' event of the skills-lifecycle story; its payload has no
\* skillId.
FocusEvent ==
    [type |-> "panel:focus", source |-> "skills-lifecycle-story",
     payload |-> [skillId |-> Undefined, panelId |-> "skill-detail",
                  panelSlot |-> "right"]]

\* The events of the run.
ChannelEvents ==
    {StorySelectedEvent(SecurityAudit.id), StorySelectedEvent(TranslationHelper.id),
     FocusEvent}

\* events.on(type, handler)
On(type, handler) ==
    /\ handlers' = on(handlers, type, handler)
    /\ UNCHANGED <<context, mounted, hookVars, listSelectedSkillId, emitted,
                   delivered, detailSelectedSkillId, detailSkill, classifyVars,
                   parseVars, filterVars>>

\* events.off(type, handler)
Off(type, handler) ==
    /\ handlers' = off(handlers, type, handler)
    /\ UNCHANGED <<context, mounted, hookVars, listSelectedSkillId, emitted,
                   delivered, detailSelectedSkillId, detailSkill, classifyVars,
                   parseVars, filterVars>>

\* A call of the cleanup function that on(type, handler) returned; the effect
\* cleanup of SkillDetailPanel is the call for its 'skill:selected' handler.
Unsubscribe(type, handler) ==
    /\ handlers' = off(handlers, type, handler)
    /\ UNCHANGED <<context, mounted, hookVars, listSelectedSkillId, emitted,
                   delivered, detailSelectedSkillId, detailSkill, classifyVars,
                   parseVars, filterVars>>

\* events.emit(event)
Emit(event) ==
    /\ Len(emitted) < MaxEvents
    /\ emitted' = Append(emitted, event)
    /\ \E st \in {emit(event, [delivered |-> delivered,
                               detailSelectedSkillId |-> detailSelectedSkillId])} :
          /\ delivered' = st.delivered
          /\ detailSelectedSkillId' = st.detailSelectedSkillId
          /\ detailSkill' = selectedSkillEffect(st.detailSelectedSkillId,
                                                skills["detail"], detailSkill)
    /\ UNCHANGED <<context, mounted, hookVars, listSelectedSkillId, handlers,
                   classifyVars, parseVars, filterVars>>

InitEvents ==
    /\ context \in HookContexts
    /\ ContextValue(context).fileTree = <<>>
    /\ ContextValue(context).globalSkills = <<>>
    /\ mounted = {}
    /\ skills = [h \in Hooks |-> <<>>]
    /\ isLoading = [h \in Hooks |-> TRUE]
    /\ error = [h \in Hooks |-> Null]
    /\ passes = [h \in Hooks |-> <<>>]
    /\ lastPass = [h \in Hooks |-> NoPass]
    /\ uncaught = [h \in Hooks |-> FALSE]
    /\ listSelectedSkillId = Null
    /\ handlers = [t \in EventTypes |-> <<>>]
    /\ emitted = <<>>
    /\ delivered = <<>>
    /\ detailSelectedSkillId = Null
    /\ detailSkill = <<>>
    /\ srcPath = <<>>
    /\ srcResult = <<>>
    /\ discoverArg = <<>>
    /\ discovered = <<>>
    /\ parseArgs = <<>>
    /\ parsed = <<>>
    /\ searchQuery = <<>>
    /\ skillFilter = "all"

NextEvents ==
    \/ \E t \in EventTypes : \E h \in ChannelHandlers : On(t, h)
    \/ \E t \in EventTypes : \E h \in ChannelHandlers : Off(t, h)
    \/ \E t \in EventTypes : \E h \in ChannelHandlers : Unsubscribe(t, h)
    \/ \E event \in ChannelEvents : Emit(event)

SpecEvents == InitEvents /\ [][NextEvents]_vars

----------------------------------------------------------------------------
(* Properties of the event channel *)

\* The calls the latest step made, as a sequence of (handler, event) pairs.
NewCalls == SubSeq(delivered', Len(delivered) + 1, Len(delivered'))

\* Handler h is registered for type t.
Registered(t, h) == \E n \in 1..Len(handlers[t]) : handlers[t][n] = h

\* C21: a step that emits an event calls every handler registered for the
\* event's type at that moment exactly once with that event, whatever the
\* order of registration, and calls no handler that is registered only for
\* another type.
C21_EmitReachesEverySubscriberOnce ==
    [][emitted' # emitted =>
        LET event == emitted'[Len(emitted')]
        IN  /\ \A n \in 1..Len(NewCalls) : NewCalls[n].event = event
            /\ \A h \in ChannelHandlers :
                  Cardinality({n \in 1..Len(NewCalls) : NewCalls[n].handler = h})
                     = IF Registered(event.type, h) THEN 1 ELSE 0]_vars

\* C21 happens: two handlers registered for 'skill:selected' in one order
\* received a first event, then in the other order a second one, while one of
\* them was also registered for 'panel:focus'.
C21_Witness ==
    /\ Len(emitted) = 2
    /\ emitted[1].type = "skill:selected"
    /\ emitted[2].type = "skill:selected"
    /\ Len(delivered) = 4
    /\ delivered[1].handler = delivered[4].handler
    /\ delivered[2].handler = delivered[3].handler
    /\ delivered[1].handler # delivered[2].handler
    /\ handlers["panel:focus"] # <<>>

----------------------------------------------------------------------------
(* Properties of the reads of a pass *)

\* The reads of a pass that have settled, as indexes into its paths.
SettledReads(pass) == {pass.settled[k].idx : k \in 1..Len(pass.settled)}

\* C22: the list is written only by a pass all of whose reads have settled and
\* which is then no longer outstanding; every outstanding pass still has a
\* pending read; and a pass that suspends has issued the reads of all its
\* skill files, none of them settled yet.
C22_CommitAfterAllReadsSettle ==
    [][/\ skills'["list"] # skills["list"] =>
            /\ lastPass'["list"].kind = "committed"
            /\ SettledReads(lastPass'["list"]) = 1..Len(lastPass'["list"].paths)
            /\ Len(passes'["list"]) <= Len(passes["list"])
       /\ \A k \in 1..Len(passes'["list"]) :
            SettledReads(passes'["list"][k]) # 1..Len(passes'["list"][k].paths)
       /\ Len(passes'["list"]) > Len(passes["list"]) =>
            LET pass == passes'["list"][Len(passes'["list"])]
            IN  /\ pass.settled = <<>>
                /\ pass.paths = findSkillFiles(ContextValue(pass.ctx).fileTree)
                /\ Len(pass.paths) > 0]_vars

\* C22 happens: a pass with two reads committed two items, and its second
\* read had settled before its first.
C22_Witness ==
    /\ EndedPass.kind = "committed"
    /\ Len(EndedPass.paths) = 2
    /\ EndedPass.settled[1].idx = 2
    /\ EndedPass.settled[2].idx = 1
    /\ ResolvedReads = {1, 2}
    /\ Len(skills["list"]) >= 2

\* The item the pass parsed from its read of paths[i], as an option.
ParsedFromRead(pass, i) ==
    IF \E k \in 1..Len(pass.settled) :
          pass.settled[k].idx = i /\ pass.settled[k].value # <<>>
    THEN <<parseSkillContent(FileContent(pass.paths[i]), pass.paths[i],
                             ContextValue(pass.ctx).fileTree)>>
    ELSE <<>>

\* The items the pass parsed, in the order of its paths.
RECURSIVE ParsedFrom(_, _)
ParsedFrom(pass, i) ==
    IF i > Len(pass.paths) THEN <<>>
    ELSE ParsedFromRead(pass, i) \o ParsedFrom(pass, i + 1)

\* C24: the list a pass commits is exactly the items that pass parsed from the
\* skill files of the file tree it read, followed by the global skills it
\* read, as supplied; nothing of the list held before is kept.
C24_CommitRebuildsList ==
    EndedPass.kind = "committed" =>
        skills["list"] = ParsedFrom(EndedPass, 1)
                            \o ContextValue(EndedPass.ctx).globalSkills

\* C24 happens: a pass committed a non-empty list over a non-empty list with
\* which it shares no item.
C24_Witness ==
    /\ EndedPass.kind = "committed"
    /\ EndedPass.before # <<>>
    /\ skills["list"] # <<>>
    /\ \A a \in 1..Len(EndedPass.before) : \A b \in 1..Len(skills["list"]) :
          EndedPass.before[a] # skills["list"][b]

----------------------------------------------------------------------------
(* The list panel under overlapping calls of loadSkills *)

\* At most this many loadSkills calls of the instance are suspended at once in
\* the run of overlapping passes.
MaxOverlap == 2

\* The contexts of the run: the single-skill repository without global
\* skills, and the two-skill repository with the lifecycle global skills, with
\* and without a file system.
OverlapContexts ==
    {c \in Contexts :
        LET v == ContextValue(c)
        IN  \/ v.fileTree = SmallFileTree
            \/ /\ v.fileTree = RepoFileTree
               /\ v.repoPath
               /\ v.globalSkills = LifecycleGlobalSkills}

InitOverlap ==
    /\ context \in OverlapContexts
    /\ mounted = {}
    /\ skills = [h \in Hooks |-> <<>>]
    /\ isLoading = [h \in Hooks |-> TRUE]
    /\ error = [h \in Hooks |-> Null]
    /\ passes = [h \in Hooks |-> <<>>]
    /\ lastPass = [h \in Hooks |-> NoPass]
    /\ uncaught = [h \in Hooks |-> FALSE]
    /\ listSelectedSkillId = Null
    /\ handlers = [t \in EventTypes |-> <<>>]
    /\ emitted = <<>>
    /\ delivered = <<>>
    /\ detailSelectedSkillId = Null
    /\ detailSkill = <<>>
    /\ srcPath = <<>>
    /\ srcResult = <<>>
    /\ discoverArg = <<>>
    /\ discovered = <<>>
    /\ parseArgs = <<>>
    /\ parsed = <<>>
    /\ searchQuery = <<>>
    /\ skillFilter = "all"

NextOverlap ==
    \/ Mount("list")
    \/ \E c \in OverlapContexts : ChangeContextWithin(c, MaxOverlap)
    \/ HandleRefreshWithin(MaxOverlap)
    \/ \E k \in 1..Len(passes["list"]) : \E i \in 1..Len(passes["list"][k].paths) :
          ReadResolves("list", k, i)
    \/ \E k \in 1..Len(passes["list"]) : \E i \in 1..Len(passes["list"][k].paths) :
          ReadRejects("list", k, i)

SpecOverlap == InitOverlap /\ [][NextOverlap]_vars

----------------------------------------------------------------------------
(* Properties of overlapping passes *)

\* C23: nothing guards a pass that was overtaken.  When a pass of a context
\* that is no longer the current one commits, the list becomes the list of
\* that pass (the items of its own file tree and its own global skills), the
\* loading flag is lowered and the error the newer pass left is kept, whether
\* or not newer passes are still outstanding or have already ended.
C23_StalePassOverwrites ==
    [][(lastPass'["list"].kind = "committed" /\ lastPass'["list"].ctx # context') =>
          LET pass == lastPass'["list"]
              tree == ContextValue(pass.ctx).fileTree
              own == ContextValue(pass.ctx).globalSkills
              n == Len(skills'["list"]) - Len(own)
          IN  /\ n >= 0
              /\ SubSeq(skills'["list"], n + 1, Len(skills'["list"])) = own
              /\ \A a \in 1..n :
                    \E i \in ResolvedReads' :
                        skills'["list"][a] =
                            parseSkillContent(FileContent(pass.paths[i]),
                                              pass.paths[i], tree)
              /\ n = Cardinality(ResolvedReads')
              /\ ~isLoading'["list"]
              /\ error'["list"] = error["list"]]_vars

\* C23 happens: the pass of the two-skill repository was overtaken by the pass
\* of the single-skill repository, which read and committed its list first;
\* then the reads of the overtaken pass settled, and with no pass left the
\* list shown under the single-skill context is the two-skill one.
C23_Witness ==
    /\ EndedPass.kind = "committed"
    /\ ContextValue(context).fileTree = SmallFileTree
    /\ ContextValue(EndedPass.ctx).fileTree = RepoFileTree
    /\ passes["list"] = <<>>
    /\ Len(EndedPass.before) = 1
    /\ EndedPass.before[1].path = PdfSkillPath
    /\ Len(skills["list"]) = 4
    /\ skills["list"][2].path = DocxSkillPath

\* C25 as amended: the loading flag is raised by every step that starts a
\* pass and leaves it in flight, it stays raised through every step in which
\* no pass ends, and it is lowered by every step in which a pass ends, also
\* when other passes are still in flight.
C25_LoadingUntilFirstPassEnds ==
    [][/\ Len(passes'["list"]) > Len(passes["list"]) => isLoading'["list"]
       /\ (isLoading["list"] /\ lastPass'["list"].kind = "none")
             => isLoading'["list"]
       /\ lastPass'["list"].kind # "none" => ~isLoading'["list"]]_vars

\* C25 happens: two passes are in flight, none has ended since the later one
\* started, and the flag is raised.
C25_Witness ==
    /\ Len(passes["list"]) = 2
    /\ passes["list"][1].settled # <<>>
    /\ isLoading["list"]

\* C25 as stated: the loading flag is true whenever a pass is in flight.
C25_LoadingWhilePassInFlight ==
    passes["list"] # <<>> => isLoading["list"]

----------------------------------------------------------------------------
(* Properties of a failed pass *)

\* C28: a step in which a pass ends in a hard failure leaves the list as it
\* was; it sets the error string and lowers the loading flag, and neither
\* empties the list nor puts the global skills of the pass's context into it.
C28_FailureLeavesList ==
    [][lastPass'["list"].kind = "failed" =>
          /\ skills'["list"] = skills["list"]
          /\ error'["list"] \in {ErrNoFileSystem, ErrNoRepoPath}
          /\ ~isLoading'["list"]]_vars

\* C28 happens: a pass failed under a context that supplies the lifecycle
\* global skills while the list held the browse-mode global skills, and the
\* list still holds exactly those.
C28_Witness ==
    /\ EndedPass.kind = "failed"
    /\ ContextValue(EndedPass.ctx).globalSkills = LifecycleGlobalSkills
    /\ EndedPass.before = BrowseGlobalSkills
    /\ skills["list"] = BrowseGlobalSkills
    /\ error["list"] = ErrNoFileSystem

----------------------------------------------------------------------------
(* Properties of the detail panel's displayed item *)

\* C26 as stated: whenever the detail panel has a displayed item, its id is
\* the panel's selected id and it is an item of the list its hook holds.
C26_DisplayedItemIsSelectedAndListed ==
    detailSkill # <<>> =>
        /\ detailSkill[1].id = detailSelectedSkillId
        /\ \E n \in 1..Len(skills["detail"]) : skills["detail"][n] = detailSkill[1]

----------------------------------------------------------------------------
(* Properties of the category toggle without a repository *)

\* C27 as stated: whenever the list panel is rendered without file-tree data,
\* so that the category toggle is hidden, the category filter is 'all', and
\* with an empty search text the view shows every item of the list.
C27_HiddenToggleMeansAllFilter ==
    ("list" \in mounted /\ ~hasRepository) =>
        /\ skillFilter = "all"
        /\ searchQuery = <<>> => filteredSkills = skills["list"]

----------------------------------------------------------------------------
(* Properties of the views as parts of the list *)

\* The view of a category under the current search text.
ViewOf(filter) == TextFilter(CategoryFilter(skills["list"], filter), searchQuery)

\* view is what is left of list after dropping items: some strictly
\* increasing choice of positions of list gives view.
IsSubsequence(view, list) ==
    \E P \in SUBSET (1..Len(list)) :
        /\ Cardinality(P) = Len(view)
        /\ \A n \in P : view[Cardinality({m \in P : m <= n})] = list[n]

\* C29 as stated: the view is an order-preserving subsequence of the list,
\* no item is in both the 'project' view and the 'global' view, and every
\* item of the 'all' view is in one of the two, under the same search text.
C29_ViewsPartitionTheList ==
    /\ IsSubsequence(filteredSkills, skills["list"])
    /\ \A a \in 1..Len(ViewOf("project")) : \A b \in 1..Len(ViewOf("global")) :
          ViewOf("project")[a] # ViewOf("global")[b]
    /\ \A n \in 1..Len(ViewOf("all")) :
          \/ \E a \in 1..Len(ViewOf("project")) : ViewOf("project")[a] = ViewOf("all")[n]
          \/ \E b \in 1..Len(ViewOf("global")) : ViewOf("global")[b] = ViewOf("all")[n]

----------------------------------------------------------------------------
(* Properties of unsubscribing *)

\* The handlers of type t without handler h, in their order.
Without(t, h) ==
    LET keep == {n \in 1..Len(handlers[t]) : handlers[t][n] # h}
    IN  [k \in 1..Cardinality(keep) |->
            handlers[t][CHOOSE n \in keep : Cardinality({m \in keep : m <= n}) = k]]

\* C30: a call of the cleanup function of on(type, handler), or of
\* off(type, handler), leaves the handler unregistered for the type, changes
\* nothing when the handler was not registered, and keeps every other
\* registration; a handler that is not registered for an event's type when it
\* is emitted is not called; and while the detail panel's handler is not
\* registered, no emitted event changes the panel's selected id.
C30_UnsubscribedHandlerReceivesNothing ==
    [][/\ \A t \in EventTypes : \A h \in ChannelHandlers :
            (Off(t, h) \/ Unsubscribe(t, h)) =>
                /\ ~Registered(t, h)'
                /\ handlers'[t] = Without(t, h)
                /\ \A u \in EventTypes \ {t} : handlers'[u] = handlers[u]
                /\ ~Registered(t, h) => handlers' = handlers
       /\ emitted' # emitted =>
            LET event == emitted'[Len(emitted')]
            IN  /\ \A h \in ChannelHandlers :
                      ~Registered(event.type, h) =>
                          \A n \in 1..Len(NewCalls) : NewCalls[n].handler # h
                /\ ~Registered(event.type, DetailSelectedHandler) =>
                      detailSelectedSkillId' = detailSelectedSkillId]_vars

\* C30 happens: both handlers received a first 'skill:selected' event, the
\* detail panel's handler was then removed while the other stayed, and a
\* second event for another skill reached only the other handler and left the
\* detail panel's selected id at the first skill.
C30_Witness ==
    /\ Len(emitted) = 2
    /\ emitted[1] = StorySelectedEvent(SecurityAudit.id)
    /\ emitted[2] = StorySelectedEvent(TranslationHelper.id)
    /\ Len(delivered) = 3
    /\ delivered[3].handler = StorySelectedHandler
    /\ delivered[3].event = emitted[2]
    /\ \E n \in 1..2 : delivered[n].handler = DetailSelectedHandler
    /\ handlers["skill:selected"] = <<StorySelectedHandler>>
    /\ detailSelectedSkillId = SecurityAudit.id

====
